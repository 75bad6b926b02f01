------------------------------- MODULE CgiForm -------------------------------
(***************************************************************************)
(* cgic.c, the part that computes: URL decoding, the form's answers to the *)
(* script, cookies, and the stream that multipart bodies are read through. *)
(*                                                                         *)
(* Text is a sequence of units.  A unit below 256 is a byte; a unit from   *)
(* 256 on is a word, a run of letters that no function here looks into.    *)
(***************************************************************************)
EXTENDS Integers, Sequences, SequencesExt, FiniteSetsExt

Text == Seq(Nat)

LF == 10
CR == 13
Space == 32
Quote == 34
Percent == 37
Amp == 38
Plus == 43
Dash == 45
Colon == 58
Semi == 59
Eq == 61
Disposition == 256   \* Content-Disposition
ContentType == 257   \* Content-Type
FormData == 258      \* form-data
NameWord == 259      \* name
FileWord == 260      \* filename

IsSpace(c) == c \in 9 .. 13 \cup {Space}
IsAlnum(c) == c \in 48 .. 57 \cup 65 .. 90 \cup 97 .. 122 \/ c >= 256
IsDigit(c) == c \in 48 .. 57
IsNewline(c) == c \in {CR, LF}

\* The longest prefix of s whose units satisfy P, and what follows it.
Span(s, P(_)) ==
  LET stop == SelectInSeq(s, LAMBDA c : ~ P(c))
  IN  IF stop = 0 THEN s ELSE SubSeq(s, 1, stop - 1)
Drop(s, n) == SubSeq(s, n + 1, Len(s))
After(s, P(_)) == Drop(s, Len(Span(s, P)))
UpTo(s, stop) == Span(s, LAMBDA c : c # stop)
From(s, stop) == After(s, LAMBDA c : c # stop)
SkipSpace(s) == After(s, IsSpace)
StartsWith(s, c) == s # <<>> /\ Head(s) = c

\* A loop: the state that n turns make of start; step[k] is the k-th turn.
Turns(start, n, step) ==
  LET Turn[k \in Nat] == IF k = 0 THEN start ELSE step[k][Turn[k - 1]] IN Turn[n]
Repeat(start, n, turn) == Turns(start, n, [k \in 1 .. n |-> turn])

-----------------------------------------------------------------------------
(* cgiUnescapeChars and cgiParseFormInput                                  *)

HexValue(c) == CASE c \in 48 .. 57 -> c - 48
                 [] c \in 65 .. 70 -> c - 55
                 [] c \in 97 .. 102 -> c - 87
                 [] OTHER -> 0

Unescaping == [state : {"rest", "first", "second"}, high : Nat, out : Text]
UnescapeStep(u, c) ==
  CASE u.state = "rest" /\ c = Percent -> [u EXCEPT !.state = "first"]
    [] u.state = "rest" /\ c = Plus -> [u EXCEPT !.out = Append(@, Space)]
    [] u.state = "rest" /\ c \notin {Percent, Plus} -> [u EXCEPT !.out = Append(@, c)]
    [] u.state = "first" -> [u EXCEPT !.high = HexValue(c) * 16, !.state = "second"]
    [] u.state = "second" ->
         [u EXCEPT !.out = Append(@, (u.high + HexValue(c)) % 256), !.state = "rest"]
Unescape(s) ==
  Turns([state |-> "rest", high |-> 0, out |-> <<>>], Len(s),
        [k \in 1 .. Len(s) |-> [u \in Unescaping |-> UnescapeStep(u, s[k])]]).out

\* A form entry; tfile names its temporary file, 0 when it has none; live is
\* whether its memory is still allocated.
FormEntry(attr, value, length, fileName, contentType, tfile) ==
  [attr |-> attr, value |-> value, length |-> length, fileName |-> fileName,
   contentType |-> contentType, tfile |-> tfile, live |-> TRUE]
Entries == [attr : Text, value : Text, length : Nat, fileName : Text, contentType : Text,
            tfile : Nat, live : BOOLEAN]

\* What a C string holds: strlen() and strcpy() stop at a null.
CString(s) == UpTo(s, 0)

\* One turn takes a pair; the name runs to the next '=', over any '&' in between.
Parsed == [rest : Text, form : Seq(Entries)]
ParsePair(p) ==
  LET name  == UpTo(p.rest, Eq)
      tail  == Drop(p.rest, Len(name) + 1)
      text  == UpTo(tail, Amp)
      attr  == CString(Unescape(name))
      value == CString(Unescape(text))
  IN  IF Len(name) = Len(p.rest) THEN p
      ELSE [rest |-> Drop(tail, Len(text) + 1),
            form |-> Append(p.form, FormEntry(attr, value, Len(value), <<>>, <<>>, 0))]
ParseFormInput(data) ==
  Repeat([rest |-> data, form |-> <<>>], Len(data), [p \in Parsed |-> ParsePair(p)]).form

-----------------------------------------------------------------------------
(* The answers a script asks the form for                                  *)

\* cgiFormEntryFindFirst and cgiFormEntryFindNext
Named(form, name) == SelectSeq(form, LAMBDA e : e.attr = name)

\* cgiFormEntryString: a burst of CRs and LFs becomes the larger number of LFs.
\* One step of its loop; e.room is what max leaves.
EntryStringStep(e, ch) ==
  LET add == IF e.newlines THEN Max({e.cr, e.lf}) ELSE 0
      lfs == Min({add, e.room})
      flushed == [e EXCEPT !.out = @ \o [i \in 1 .. lfs |-> LF], !.room = @ - lfs,
                           !.cr = 0, !.lf = 0, !.truncated = @ \/ lfs < add]
  IN  CASE e.stopped -> e
        [] ~ e.stopped /\ ch = CR -> [e EXCEPT !.cr = @ + 1]
        [] ~ e.stopped /\ ch = LF -> [e EXCEPT !.lf = @ + 1]
        [] ~ e.stopped /\ ch = 0 -> [flushed EXCEPT !.stopped = TRUE]
        [] ~ e.stopped /\ ~ IsNewline(ch) /\ ch # 0 ->
             IF flushed.room = 0 THEN [flushed EXCEPT !.truncated = TRUE, !.stopped = TRUE]
             ELSE [flushed EXCEPT !.out = Append(@, ch), !.room = @ - 1]
Copying == [out : Text, room : Nat, cr : Nat, lf : Nat, newlines : BOOLEAN,
            truncated : BOOLEAN, stopped : BOOLEAN]
Copied(text, max, newlines) ==
  Turns([out |-> <<>>, room |-> max - 1, cr |-> 0, lf |-> 0, newlines |-> newlines,
         truncated |-> FALSE, stopped |-> FALSE], Len(text),
        [k \in 1 .. Len(text) |-> [e \in Copying |-> EntryStringStep(e, text[k])]])
\* mutant: the room is looked at before the unit is
EntryStringEager(value, max, newlines) ==
  LET end == Copied(Append(CString(value), 0), max, newlines)
  IN  [out |-> end.out,
       status |-> IF Len(end.out) = max - 1 THEN "truncated" ELSE "success"]
EntryString(value, max, newlines) ==
  LET end == Copied(Append(CString(value), 0), max, newlines)
  IN  [out |-> end.out,
       status |-> IF end.truncated THEN "truncated"
                  ELSE IF end.out = <<>> THEN "empty" ELSE "success"]

FormString(form, name, max, newlines) ==
  LET found == Named(form, name)
  IN  IF found = <<>> THEN [out |-> <<>>, status |-> "notFound"]
      ELSE EntryString(found[1].value, max, newlines)

SpaceNeeded(form, name) ==
  LET found == Named(form, name)
  IN  IF found = <<>> THEN 1 ELSE Len(CString(found[1].value)) + 1

StringMultiple(form, name) ==
  LET found == Named(form, name)
  IN  [i \in 1 .. Len(found) |->
         EntryString(found[i].value, Len(CString(found[i].value)) + 1, TRUE).out]

\* cgiFormFileName and cgiFormFileContentType, of the field s of the entry
FileField(s, space) ==
  [out |-> SubSeq(s, 1, Min({Len(s), space - 1})),
   status |-> IF s = <<>> THEN "none"
              ELSE IF Len(s) > space - 1 THEN "truncated" ELSE "success"]

FileSize(form, name) ==
  LET found == Named(form, name)
  IN  CASE found = <<>> -> [size |-> 0, status |-> "notFound"]
        [] found # <<>> /\ found[1].tfile = 0 -> [size |-> 0, status |-> "notAFile"]
        [] found # <<>> /\ found[1].tfile # 0 -> [size |-> found[1].length, status |-> "success"]

\* atoi, as far as its result fits
Atoi(s) ==
  LET t == SkipSpace(s)
      signed == StartsWith(t, Dash) \/ StartsWith(t, Plus)
      digits == Span(IF signed THEN Tail(t) ELSE t, IsDigit)
      n == FoldLeft(LAMBDA acc, c : 10 * acc + (c - 48), 0, digits)
  IN  IF StartsWith(t, Dash) THEN - n ELSE n

FormInteger(form, name, default) ==
  LET found == Named(form, name)
      value == CString(found[1].value)
      text  == After(value, LAMBDA c : c \in {Space, LF, CR, 9})
  IN  CASE found = <<>> -> [result |-> default, status |-> "notFound"]
        [] found # <<>> /\ value = <<>> -> [result |-> default, status |-> "empty"]
        [] found # <<>> /\ value # <<>> ->
             IF text # <<>> /\ (IsDigit(Head(text)) \/ Head(text) \in {Dash, Plus})
             THEN [result |-> Atoi(value), status |-> "success"]
             ELSE [result |-> default, status |-> "badType"]

\* The default is not bounded.
FormIntegerBounded(form, name, min, max, default) ==
  LET r == FormInteger(form, name, default)
  IN  IF r.status = "success" /\ r.result \notin min .. max
      THEN [result |-> IF r.result < min THEN min ELSE max, status |-> "constrained"]
      ELSE r

\* cgiFormSelectSingle, cgiFormRadio: the index of the chosen text, 0 the first.
SelectSingle(form, name, choices, default) ==
  LET found == Named(form, name)
      hit   == SelectInSeq(choices, LAMBDA c : c = CString(found[1].value))
  IN  CASE found = <<>> -> [result |-> default, status |-> "notFound"]
        [] found # <<>> /\ hit = 0 -> [result |-> default, status |-> "noSuchChoice"]
        [] found # <<>> /\ hit # 0 -> [result |-> hit - 1, status |-> "success"]

\* cgiFormSelectMultiple, cgiFormCheckboxMultiple
SelectMultiple(form, name, choices) ==
  LET found  == Named(form, name)
      Hit(e) == SelectInSeq(choices, LAMBDA c : c = CString(e.value))
      hits   == SelectSeq(found, LAMBDA e : Hit(e) # 0)
  IN  [marked  |-> {Hit(hits[i]) : i \in DOMAIN hits},
       invalid |-> Len(found) - Len(hits),
       status  |-> IF hits = <<>> THEN "notFound" ELSE "success"]

\* cgiFormEntries: each name once, where it comes first.
FormEntries(form) ==
  LET first(i) == \A j \in 1 .. i - 1 : form[j].attr # form[i].attr
      indices  == SelectSeq([i \in 1 .. Len(form) |-> i], first)
  IN  [k \in 1 .. Len(indices) |-> form[indices[k]].attr]

\* cgiHtmlEscapeData, cgiValueEscapeData.
Lt == 60
Gt == 62
Entity(c) == CASE c = Lt -> <<Amp, 108, 116, Semi>>
               [] c = Gt -> <<Amp, 103, 116, Semi>>
               [] c = Amp -> <<Amp, 97, 109, 112, Semi>>
               [] c = Quote -> <<Amp, 35, 51, 52, Semi>>
HtmlEscape(s) ==
  FlattenSeq([i \in 1 .. Len(s) |-> IF s[i] \in {Lt, Gt, Amp} THEN Entity(s[i]) ELSE <<s[i]>>])
ValueEscape(s) ==
  FlattenSeq([i \in 1 .. Len(s) |-> IF s[i] = Quote THEN Entity(Quote) ELSE <<s[i]>>])

-----------------------------------------------------------------------------
(* Cookies: p is what is left of the header                                *)

CommonPrefix(p, n) ==
  Max({k \in 0 .. Min({Len(p), Len(n)}) : SubSeq(p, 1, k) = SubSeq(n, 1, k)})

\* mutant: the name may go on where the one asked for ends
CookieStringLoose(header, name, space) ==
  LET Look[p \in Text] ==
        LET k    == CommonPrefix(p, name)
            rest == Drop(p, k)
            next == From(rest, Semi)
        IN  IF p # <<>> /\ k = Len(name) /\ From(rest, Eq) # <<>>
            THEN [out |-> UpTo(Tail(From(rest, Eq)), Semi), status |-> "success"]
            ELSE IF p = <<>> \/ next = <<>> THEN [out |-> <<>>, status |-> "notFound"]
            ELSE Look[SkipSpace(Tail(next))]
  IN  Look[header]

\* cgiCookieString.  (A header that ends right where name does is read past its
\* end, whatever the test in the loop was meant to do; see the callers.)
CookieString(header, name, space) ==
  LET Look[p \in Text] ==
        LET k     == CommonPrefix(p, name)
            rest  == Drop(p, k)
            value == UpTo(Tail(rest), Semi)
            next  == From(rest, Semi)
        IN  IF p # <<>> /\ k = Len(name) /\ StartsWith(rest, Eq)
            THEN [out |-> SubSeq(value, 1, Min({Len(value), space - 1})),
                  status |-> IF Len(value) <= space - 1 THEN "success" ELSE "truncated"]
            ELSE IF p = <<>> \/ next = <<>> THEN [out |-> <<>>, status |-> "notFound"]
            ELSE Look[SkipSpace(Tail(next))]
  IN  Look[header]

\* cgiCookies
Cookies[p \in Text] ==
  LET start == SkipSpace(p)
      name  == UpTo(start, Eq)
      next  == From(Drop(start, Len(name)), Semi)
  IN  (IF name = <<>> THEN <<>> ELSE <<name>>)
        \o (IF next = <<>> THEN <<>> ELSE Cookies[Tail(next)])

-----------------------------------------------------------------------------
(* The virtual stream of a multipart body, mpStream: pos units of input    *)
(* are taken from cgiIn, back is what is put back and not read again, off  *)
(* is mpp->offset; past says that cgiIn was asked for more than the        *)
(* declared length.                                                        *)

Stream == [pos : Nat, back : Text, off : Int, past : BOOLEAN]
Fresh == [pos |-> 0, back |-> <<>>, off |-> 0, past |-> FALSE]

\* mpRead(mpp, buffer, n).  The offset is left alone when everything came from
\* what was put back.
MpRead(s, n, input, declared) ==
  LET again == Min({n, Len(s.back)})
      want  == Min({n - again, declared - s.off})
      fresh == SubSeq(input, s.pos + 1, Min({s.pos + want, Len(input)}))
  IN  [got |-> SubSeq(s.back, 1, again) \o fresh,
       s |-> [pos  |-> s.pos + Len(fresh),
              back |-> Drop(s.back, again),
              off  |-> IF want = 0 THEN s.off ELSE s.off + again + Len(fresh),
              past |-> s.past \/ s.pos + want > declared]]

\* mpPutBack: behind what has been put back already.
MpPutBack(s, data) == [s EXCEPT !.back = @ \o data, !.off = @ - Len(data)]

\* decomposeValue: "value; name=value; ...", values quoted or not.
Field(v) ==
  IF StartsWith(v, Quote) THEN [value |-> UpTo(Tail(v), Quote),
                                rest |-> From(From(Tail(v), Quote), Semi)]
  ELSE [value |-> UpTo(v, Semi), rest |-> From(v, Semi)]

Parameters == [name : Text, fileName : Text, known : BOOLEAN]
\* The terminating null of a parameter nobody asked for is written through a null
\* pointer: the process ends there (known = FALSE).
Argument(a) ==
  LET text  == SkipSpace(Tail(a.rest))
      name  == Span(text, IsAlnum)
      eq    == SkipSpace(After(text, IsAlnum))
      field == Field(SkipSpace(Tail(eq)))
  IN  IF a.rest = <<>> \/ ~ a.args.known \/ ~ StartsWith(eq, Eq) THEN a
      ELSE [rest |-> field.rest,
            args |-> IF name = <<NameWord>> THEN [a.args EXCEPT !.name = field.value]
                     ELSE IF name = <<FileWord>> THEN [a.args EXCEPT !.fileName = field.value]
                     ELSE [a.args EXCEPT !.known = FALSE]]
Arguments(v) ==
  Repeat([rest |-> v, args |-> [name |-> <<>>, fileName |-> <<>>, known |-> TRUE]], Len(v),
         [a \in [rest : Text, args : Parameters] |-> Argument(a)]).args

Decompose(value) ==
  LET main == Field(SkipSpace(value)) IN [main |-> main.value, args |-> Arguments(main.rest)]

\* readHeaderLine, its two loops; a colon is dropped, with the space behind it,
\* wherever it is.
Blanks == [s : Stream, more : BOOLEAN]
SkipBlank(t, input, declared) ==
  LET b == MpRead(t.s, 1, input, declared)
  IN  CASE ~ t.more -> t
        [] t.more /\ b.got = <<>> -> [s |-> b.s, more |-> FALSE]
        [] t.more /\ b.got # <<>> ->
             IF IsSpace(b.got[1]) THEN [s |-> b.s, more |-> TRUE]
             ELSE [s |-> MpPutBack(b.s, b.got), more |-> FALSE]
SkipBlanks(s, input, declared) ==
  Repeat([s |-> s, more |-> TRUE], Len(s.back) + Len(input) + 1,
         [t \in Blanks |-> SkipBlank(t, input, declared)]).s

Lines == [s : Stream, attr : Text, value : Text, found : BOOLEAN, state : {"reading", "end", "cut"}]
HeaderUnit(line, input, declared) ==
  LET r == MpRead(line.s, 1, input, declared)
      c == r.got[1]
      next == MpRead(r.s, 1, input, declared)
  IN  CASE line.state # "reading" -> line
        [] line.state = "reading" /\ r.got = <<>> -> [line EXCEPT !.s = r.s, !.state = "cut"]
        [] line.state = "reading" /\ r.got # <<>> ->
             CASE c = CR -> [line EXCEPT !.state = "end",
                               !.s = IF next.got # <<>> /\ next.got[1] # LF
                                     THEN MpPutBack(next.s, next.got) ELSE next.s]
               [] c = LF -> [line EXCEPT !.s = r.s, !.state = "end"]
               [] c = Colon /\ line.attr # <<>> ->
                    [line EXCEPT !.s = SkipBlanks(r.s, input, declared), !.found = TRUE]
               [] ~ IsNewline(c) /\ ~ (c = Colon /\ line.attr # <<>>) ->
                    IF line.found THEN [line EXCEPT !.s = r.s, !.value = Append(@, c)]
                    ELSE IF IsSpace(c) THEN [line EXCEPT !.s = r.s]
                    ELSE [line EXCEPT !.s = r.s, !.attr = Append(@, c)]
HeaderLine(strm, input, declared) ==
  LET start == [s |-> strm, attr |-> <<>>, value |-> <<>>, found |-> FALSE, state |-> "reading"]
      end   == Repeat(start, Len(strm.back) + Len(input) + 1,
                      [line \in Lines |-> HeaderUnit(line, input, declared)])
  IN  [s |-> end.s, attr |-> CString(end.attr), value |-> CString(end.value),
       more |-> end.state # "cut" /\ end.attr # <<>> /\ end.value # <<>>]
=============================================================================
