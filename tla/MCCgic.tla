------------------------------- MODULE MCCgic -------------------------------
(* Requests for Cgic, made the way a browser makes them. *)
EXTENDS Cgic

B == 98
C == 99
X == 120
Y == 121
Newline == <<CR, LF>>
MCBoundary == <<B, C>>
Delimiter == Newline \o <<Dash, Dash>> \o MCBoundary

Part(name, fileName, type, body) ==
  [data |-> TRUE, name |-> name, fileName |-> fileName, type |-> type, body |-> body]
Other == [Part(<<X>>, <<>>, <<>>, <<X>>) EXCEPT !.data = FALSE]

Quoted(s) == <<Eq, Quote>> \o s \o <<Quote>>
Param(word, s) == <<Semi, Space, word>> \o Quoted(s)
PartText(p) ==
  <<Disposition, Colon, Space, IF p.data THEN FormData ELSE X>> \o Param(NameWord, p.name)
    \o (IF p.fileName = <<>> THEN <<>> ELSE Param(FileWord, p.fileName)) \o Newline
    \o (IF p.type = <<>> THEN <<>>
        ELSE <<ContentType, Colon, Space>> \o p.type \o <<Semi, X, Eq, X>> \o Newline)
    \o Newline \o p.body
Multipart(preamble, parts) ==
  preamble \o Tail(Tail(Delimiter)) \o Newline
    \o FlattenSeq([i \in DOMAIN parts |->
         PartText(parts[i]) \o Delimiter
           \o (IF i = Len(parts) THEN <<Dash, Dash>> ELSE <<>>) \o Newline])

Hex(n) == IF n < 10 THEN 48 + n ELSE 55 + n
Escape(s) ==
  FlattenSeq([i \in DOMAIN s |->
    CASE s[i] = Space -> <<Plus>>
      [] IsAlnum(s[i]) -> <<s[i]>>
      [] OTHER -> <<Percent, Hex(s[i] \div 16), Hex(s[i] % 16)>>])
Join(s, sep) == FlattenSeq([i \in DOMAIN s |-> IF i = 1 THEN s[1] ELSE sep \o s[i]])
UrlEncoded(parts) ==
  Join([i \in DOMAIN parts |-> Escape(parts[i].name) \o <<Eq>> \o Escape(parts[i].body)], <<Amp>>)

NewRequest(kind, parts, input, whole, declared, cookies, sep) ==
  [kind |-> kind, parts |-> parts, input |-> input, whole |-> whole, declared |-> declared,
   cookies |-> cookies,
   header |-> Join([i \in DOMAIN cookies |-> cookies[i].name \o <<Eq>> \o cookies[i].value], sep)]
Cut(kind, parts, text) ==
  {NewRequest(kind, parts, SubSeq(text, 1, n), n = Len(text),
              IF short THEN n ELSE Len(text), <<>>, <<>>) :
     n \in 0 .. Len(text), short \in IF kind = "multipart" THEN BOOLEAN ELSE {FALSE}}
Whole(kind, parts, text) == {NewRequest(kind, parts, text, TRUE, Len(text), <<>>, <<>>)}

Occurs(d, s) == \E i \in 0 .. Len(s) - Len(d) : SubSeq(s, i + 1, i + Len(d)) = d
Texts(S, n) == UNION {[1 .. k -> S] : k \in 0 .. n}

\* Bodies: whatever is short, and pieces of the delimiter before the delimiter.
Bodies == Texts({CR, LF, Dash, X}, 1) \cup {SubSeq(Delimiter, i, j) : i \in 1 .. 3, j \in 1 .. 5}
            \cup {<<CR, CR, LF>>, <<CR, LF, CR>>, <<CR, LF, Dash, CR>>}
File(b) == Part(<<Y>>, <<X>>, <<Y>>, b)
Field1(b) == Part(<<X>>, <<>>, <<>>, b)
Few == {<<X>>, SubSeq(Delimiter, 1, 5)}
\* A header nobody looks at, and a parameter that is neither name nor filename.
Stray == Tail(Tail(Delimiter)) \o Newline \o <<X, Colon, Y>> \o Newline
           \o <<Disposition, Colon, FormData, Semi, X, Eq, X>> \o Newline
MultiForms == {<<Field1(a), File(b)>> : a \in Few, b \in Few}
                \cup {<<File(b), File(<<X>>)>> : b \in Few}
                \cup {<<Other, Field1(<<X>>)>>, <<Field1(<<X>>), Other, Field1(<<X>>)>>}
                \cup {<<File(<<X, 0>>), Field1(<<X, 0, X>>)>>}
Multiparts ==
  UNION {Cut("multipart", f, Multipart(<<>>, f)) : f \in MultiForms}
    \cup UNION {Whole("multipart", <<Field1(b), Field1(<<X>>)>>,
                      Multipart(p, <<Field1(b), Field1(<<X>>)>>)) :
                b \in Bodies, p \in {<<>>, <<X>>, <<Dash>>}}
    \cup {NewRequest("multipart", <<>>, Stray, FALSE, Len(Stray), <<>>, <<>>)}
    \cup UNION {Whole("multipart", <<File(b)>>, Multipart(<<>>, <<File(b)>>)) : b \in Bodies}

Values == Texts({X, Space, Percent, Amp, CR, LF}, 2) \cup Texts({49, Dash, Lt, Quote}, 2)
            \cup Texts({X, CR, LF}, 3)
UrlForms == {<<Field1(v), Part(<<Eq, X>>, <<>>, <<>>, w)>> :
               v \in Values, w \in {<<Plus>>}}
             \cup {<<Field1(v), Field1(<<X>>), Field1(<<Y>>)>> : v \in Texts({X, Y}, 2)}
UrlRequests == UNION {Whole(k, f, UrlEncoded(f)) : k \in {"get", "urlencoded"}, f \in UrlForms}
                 \cup Cut("urlencoded", <<Field1(<<X>>)>>, UrlEncoded(<<Field1(<<X>>)>>))

CookieNames == {<<X>>, <<Y>>, <<X, Y>>, <<X, X>>}
CookieSet == [name : CookieNames, value : {<<>>, <<X>>, <<X, Y, Eq, X>>}]
CookieRequests ==
  {NewRequest("other", <<>>, <<>>, TRUE, 0, c, sep) :
     c \in UNION {[1 .. n -> CookieSet] : n \in 1 .. 2}, sep \in {<<Semi>>, <<Semi, Space>>}}

\* Scripts save what was sent whole, and restore whatever was saved.
MCSaves == {r \in Multiparts : r.whole /\ (r.parts \in MultiForms \/ Len(r.parts) = 1)}
             \cup UNION {Whole("get", f, UrlEncoded(f)) : f \in {<<Field1(v), Field1(<<X>>)>> : v \in Few}}
             \cup {NewRequest("other", <<>>, <<>>, TRUE, 0, <<>>, <<>>)}
MCRequest == Multiparts \cup UrlRequests \cup CookieRequests \cup MCSaves
\* One that cgiFreeResources frees, and cgiCookie.
MCEnv == << <<X, Y>>, <<Y>> >>
MCOtherEnv == << <<>>, <<Y>> >>
MCGarbage == {<<Dash>>}
=============================================================================
