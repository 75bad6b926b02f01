------------------------------ MODULE Template ------------------------------
(***************************************************************************)
(* ctemplate.c: a template is scanned into tags, parsed into a tree by     *)
(* recursive descent with one tag of lookahead, and the tree is walked     *)
(* with the script's variables.                                            *)
(*                                                                         *)
(* The text of a template is a sequence of pieces: a unit of text, a tag   *)
(* (well formed or not), a comment, or the beginning of one.               *)
(***************************************************************************)
EXTENDS Integers, Sequences, SequencesExt, FiniteSetsExt

CONSTANTS File,        \* names of template files
          Sources,     \* what the files may hold: functions from File to pieces
          Data,        \* the variable lists the script may pass
          MaxDepth,    \* MAX_INCLUDE_DEPTH
          MainFile     \* the file given to TMPL_write

None == "none"   \* a null pointer

\* kind: the tag, "text", "bad", "comment" or "open"; name: the name attribute, or
\* the unit of text; value: default= or value=; level: level=, 0 when it is missing.
Piece(kind, name, value, level) ==
  [kind |-> kind, name |-> name, value |-> value, level |-> level]
Terminators == {"elsif", "else", "endif", "endloop"}

VARIABLES sources, data,
          readable,  \* the files that exist and may be read
          phase,     \* of TMPL_write: "called", "parsed", "done"
          parsed,    \* the tree of the main file, and what the parser counted
          result     \* the output, and whether TMPL_write succeeds

vars == <<sources, data, readable, phase, parsed, result>>

-----------------------------------------------------------------------------
(* The scanner.  t.at is t->scanptr, t.next t->nexttag, t.cur t->curtag;   *)
(* t.made counts the nodes newtag allocates.                               *)

NoTag == Piece("", None, None, 0)
NewTemplate(src, include_depth) ==
  [src |-> src, at |-> 1, next |-> NoTag, cur |-> NoTag, error |-> FALSE,
   include_depth |-> include_depth, loop_depth |-> 0, made |-> 0]

\* scantag refuses a break or a continue that leaves more loops than it is in, and
\* an include that is too deep; what it refuses is text.
Accepted(t, p) ==
  /\ p.kind \notin {"text", "bad", "open"}
  /\ p.kind \in {"break", "cont"} => t.loop_depth >= Max({1, p.level})
  /\ p.kind = "include" => t.include_depth < MaxDepth

\* A comment ends at the next "*>", another comment's if it has none of its own.
CommentEnd(src, i) ==
  LET ends == {j \in i .. Len(src) : src[j].kind = "comment"}
  IN  IF src[i].kind = "comment" THEN i ELSE IF ends = {} THEN 0 ELSE Min(ends)

Node(p, text, body, alt) ==
  [kind |-> p.kind, name |-> p.name, value |-> p.value, level |-> Max({1, p.level}),
   text |-> text, body |-> body, alt |-> alt]
Made(kind) == IF kind \in {"else", "endif", "endloop"} THEN 0 ELSE 1
TextTag(units) == [Piece("text", None, None, 0) EXCEPT !.name = units]

\* scan, from piece i with the text found so far
RECURSIVE ScanOn(_, _, _)
ScanOn(t, i, text) ==
  LET p == t.src[i]
      end == CommentEnd(t.src, i)
      tag == IF text = <<>> THEN [t EXCEPT !.cur = p, !.at = i + 1, !.made = @ + Made(p.kind)]
             ELSE [t EXCEPT !.cur = TextTag(text), !.next = p, !.at = i + 1,
                            !.made = @ + 1 + Made(p.kind)]
      textOnly(at) == [t EXCEPT !.cur = IF text = <<>> THEN NoTag ELSE TextTag(text),
                                !.at = at, !.made = @ + (IF text = <<>> THEN 0 ELSE 1)]
      isComment == p.kind \in {"comment", "open"}
  IN  CASE i > Len(t.src) -> textOnly(i)
        [] i <= Len(t.src) /\ isComment /\ end > 0 ->
             IF text = <<>> THEN ScanOn(t, end + 1, <<>>) ELSE textOnly(end + 1)
        [] i <= Len(t.src) /\ isComment /\ end = 0 ->
             ScanOn([t EXCEPT !.error = TRUE], i + 1, Append(text, "<"))
        [] i <= Len(t.src) /\ ~ isComment /\ Accepted(t, p) -> tag
        [] i <= Len(t.src) /\ ~ isComment /\ ~ Accepted(t, p) ->
             ScanOn(t, i + 1, Append(text, IF p.kind = "text" THEN p.name ELSE "<"))

Scan(t) == IF t.next # NoTag THEN [t EXCEPT !.cur = t.next, !.next = NoTag]
           ELSE ScanOn(t, t.at, <<>>)

-----------------------------------------------------------------------------
(* The parser: a function returns its list of nodes and the template.      *)

\* mutant: the missing end is passed over without an error
MissingForgiven(t, kind) == IF t.cur.kind = kind THEN Scan(t) ELSE t
Missing(t, kind) == IF t.cur.kind = kind THEN Scan(t) ELSE [t EXCEPT !.error = TRUE]

RECURSIVE ParseList(_, _), ParseItems(_, _, _), ParseBranches(_, _)
ParseList(t, stop) == ParseItems(Scan(t), stop, <<>>)

\* parseif, but for the /TMPL_IF tag; t.cur is the TMPL_IF or TMPL_ELSIF tag
ParseBranches(t, stop) ==
  LET yes  == ParseList(t, stop \cup {"else", "elsif", "endif"})
      more == ParseBranches(yes.t, stop)
      no   == ParseList(yes.t, stop \cup {"endif"})
      node(alt) == Node(t.cur, <<>>, yes.list, alt)
  IN  CASE yes.t.cur.kind = "elsif" -> [node |-> node(<<more.node>>), t |-> more.t]
        [] yes.t.cur.kind = "else" -> [node |-> node(no.list), t |-> no.t]
        [] yes.t.cur.kind \notin {"elsif", "else"} -> [node |-> node(<<>>), t |-> yes.t]

\* parselist, with parseif and parseloop
ParseItems(t, stop, list) ==
  LET tag    == t.cur
      failed == Scan([t EXCEPT !.error = TRUE])
      branch == ParseBranches(t, stop)
      body   == ParseList([t EXCEPT !.loop_depth = @ + 1], stop \cup {"endloop"})
      after  == [body.t EXCEPT !.loop_depth = @ - 1]
      on(next, node) == ParseItems(next, stop, Append(list, node))
  IN  CASE tag = NoTag \/ tag.kind \in Terminators \cap stop -> [list |-> list, t |-> t]
        [] tag.kind \in Terminators \ stop ->
             IF tag.kind = "elsif" THEN on(failed, Node(tag, <<>>, <<>>, <<>>))
             ELSE ParseItems(failed, stop, list)
        [] tag.kind = "if" -> on(Missing(branch.t, "endif"), branch.node)
        [] tag.kind = "loop" -> on(Missing(after, "endloop"), Node(tag, <<>>, body.list, <<>>))
        [] tag.kind = "text" -> on(Scan(t), Node(TextTag(None), tag.name, <<>>, <<>>))
        [] tag.kind \in {"var", "break", "cont", "include"} ->
             on(Scan(t), Node(tag, <<>>, <<>>, <<>>))

ParseFile(f, depth) == ParseList(NewTemplate(sources[f], depth), {})

-----------------------------------------------------------------------------
(* Looking up variables.  lists is the chain of varlist and the lists that *)
(* enclose it, innermost first; a list has variables and loops, and a loop *)
(* has lists.                                                              *)

Holding(lists, field, name) ==
  SelectInSeq(lists, LAMBDA vl : \E i \in DOMAIN vl[field] : vl[field][i].name = name)
First(vl, field, name) ==
  vl[field][SelectInSeq(vl[field], LAMBDA x : x.name = name)]

ValueOf(lists, name) ==
  LET k == Holding(lists, "vars", name)
  IN  IF k = 0 THEN None ELSE First(lists[k], "vars", name).value

\* findloop.  The lists of a loop are enclosed by the list the loop is found in.
LoopLists(lists, name) ==
  LET k == Holding(lists, "loops", name)
      inner == First(lists[k], "loops", name).lists
  IN  IF k = 0 THEN <<>> ELSE [i \in DOMAIN inner |-> <<inner[i]>> \o SubSeq(lists, k, Len(lists))]

IsTrue(tag, lists) ==
  LET value == ValueOf(lists, tag.name)
      loop  == value = None /\ Holding(lists, "loops", tag.name) # 0
  IN  \/ tag.value = None /\ (value \notin {None, ""} \/ loop)
      \/ tag.value = "" /\ ~ loop /\ value \in {None, ""}
      \/ tag.value # None /\ value # None /\ value = tag.value

\* write_text: a backslash before a line's end takes the end away, two become one.
RECURSIVE WriteText(_)
WriteText(p) ==
  LET at(k) == IF k <= Len(p) THEN p[k] ELSE None
      two   == at(2) = "bs"
      cr    == IF two THEN 3 ELSE 2
      nl    == IF at(cr) = "cr" THEN cr + 1 ELSE cr
      after(k) == SubSeq(p, k + 1, Len(p))
  IN  CASE p = <<>> -> <<>>
        [] p # <<>> /\ at(1) = "bs" /\ at(nl) = "nl" ->
             IF two THEN <<"bs">> \o WriteText(after(2)) ELSE WriteText(after(nl))
        [] p # <<>> /\ ~ (at(1) = "bs" /\ at(nl) = "nl") -> <<at(1)>> \o WriteText(after(1))

-----------------------------------------------------------------------------
(* The walk: w carries the output, t->break_level, t->cont_level and       *)
(* t->error.                                                               *)

Started == [out |-> <<>>, break_level |-> 0, cont_level |-> 0, error |-> FALSE]
Unwinding(w) == w.break_level > 0 \/ w.cont_level > 0 \/ w.error
Write(w, units) == [w EXCEPT !.out = @ \o units]

\* mutant: continue ends the loop it is in as break does
TurnBreaks(w) ==
  CASE w.break_level > 0 -> [last |-> TRUE, w |-> [w EXCEPT !.break_level = @ - 1]]
    [] w.break_level = 0 /\ w.cont_level > 0 ->
         [last |-> TRUE, w |-> [w EXCEPT !.cont_level = @ - 1]]
    [] w.break_level = 0 /\ w.cont_level = 0 -> [last |-> FALSE, w |-> w]
\* The end of one turn of a loop: whether it is the last, and what is left to leave.
Turn(w) ==
  CASE w.break_level > 0 -> [last |-> TRUE, w |-> [w EXCEPT !.break_level = @ - 1]]
    [] w.break_level = 0 /\ w.cont_level > 0 ->
         [last |-> w.cont_level > 1, w |-> [w EXCEPT !.cont_level = @ - 1]]
    [] w.break_level = 0 /\ w.cont_level = 0 -> [last |-> FALSE, w |-> w]

RECURSIVE Walk(_, _, _, _), WalkLoop(_, _, _, _)
Walk(w, list, lists, depth) ==
  LET tag   == Head(list)
      value == ValueOf(lists, tag.name)
      sub   == ParseFile(tag.name, depth + 1)
      inner == Walk([Started EXCEPT !.out = w.out, !.error = sub.t.error],
                    sub.list, lists, depth + 1)
      done  ==
        CASE tag.kind = "text" -> Write(w, WriteText(tag.text))
          [] tag.kind = "var" ->
               IF value # None THEN Write(w, <<value>>)
               ELSE IF tag.value # None THEN Write(w, <<tag.value>>) ELSE w
          [] tag.kind \in {"if", "elsif"} ->
               Walk(w, IF IsTrue(tag, lists) THEN tag.body ELSE tag.alt, lists, depth)
          [] tag.kind = "loop" -> WalkLoop(w, tag.body, LoopLists(lists, tag.name), depth)
          [] tag.kind = "break" -> [w EXCEPT !.break_level = tag.level]
          [] tag.kind = "cont" -> [w EXCEPT !.cont_level = tag.level]
          [] tag.kind = "include" ->
               IF tag.name \in readable THEN [w EXCEPT !.out = inner.out, !.error = inner.error]
               ELSE [w EXCEPT !.error = TRUE]
  IN  IF list = <<>> \/ Unwinding(w) THEN w ELSE Walk(done, Tail(list), lists, depth)

WalkLoop(w, body, turns, depth) ==
  LET turn == Turn(Walk(w, body, Head(turns), depth))
  IN  IF turns = <<>> THEN w
      ELSE IF turn.last THEN turn.w
      ELSE WalkLoop(turn.w, body, Tail(turns), depth)

-----------------------------------------------------------------------------
(* TMPL_write                                                              *)

Init == /\ sources \in Sources /\ data \in Data
        /\ readable \in {File, File \ {MainFile}}
        /\ phase = "called"
        /\ parsed = [list |-> <<>>, t |-> NewTemplate(<<>>, 0)]
        /\ result = [out |-> <<>>, ok |-> FALSE, leaving |-> 0]

Parse == /\ phase = "called"
         /\ IF MainFile \in readable
            THEN parsed' = ParseFile(MainFile, 0) /\ phase' = "parsed"
            ELSE phase' = "done" /\ UNCHANGED parsed
         /\ UNCHANGED <<sources, data, readable, result>>

Output == /\ phase = "parsed"
          /\ LET w == Walk([Started EXCEPT !.error = parsed.t.error],
                           parsed.list, <<data>>, 0)
             IN  result' = [out |-> w.out, ok |-> ~ w.error,
                            leaving |-> w.break_level + w.cont_level]
          /\ phase' = "done"
          /\ UNCHANGED <<sources, data, readable, parsed>>

Next == Parse \/ Output

Spec == Init /\ [][Next]_vars

-----------------------------------------------------------------------------
(* What a template means, told from its pieces alone: a reader that goes   *)
(* from piece to piece, with the loops it is in.                           *)

\* The pieces with each comment, whatever it holds, made one.
RECURSIVE Plain(_)
Plain(src) ==
  LET i == SelectInSeq(src, LAMBDA p : p.kind = "open")
      e == CommentEnd(src, i)
  IN  IF i = 0 \/ e = 0 THEN src
      ELSE Plain(SubSeq(src, 1, i - 1) \o SubSeq(src, e, Len(src)))

Count(src, n, kinds) == Cardinality({i \in 1 .. n : src[i].kind \in kinds})
Depth(src, i) == Count(src, i - 1, {"if", "loop"}) - Count(src, i - 1, {"endif", "endloop"})
LoopDepth(src, i) == Count(src, i - 1, {"loop"}) - Count(src, i - 1, {"endloop"})
EndOf(src, i) == Min({j \in i .. Len(src) : Depth(src, j + 1) = Depth(src, i)})
Opener(src, i) == Max({j \in 1 .. i - 1 : src[j].kind \in {"if", "loop"} /\ EndOf(src, j) >= i})

\* if's and loops end in the order they begin, an else comes last and once.
WellNested(src) ==
  /\ \A i \in 1 .. Len(src) + 1 : Depth(src, i) >= 0
  /\ Depth(src, Len(src) + 1) = 0
  /\ \A i \in DOMAIN src :
       /\ src[i].kind \in {"else", "elsif"} =>
            /\ Depth(src, i) > 0 /\ src[Opener(src, i)].kind = "if"
            /\ \A j \in Opener(src, i) .. i - 1 :
                 src[j].kind = "else" => Depth(src, j) # Depth(src, i)
       /\ src[i].kind \in {"if", "loop"} => src[EndOf(src, i)].kind = "end" \o src[i].kind
       /\ src[i].kind # "open"

Sound(src) == WellNested(Plain(src))
IsText(src, i, depth) ==
  \/ src[i].kind \in {"text", "bad"}
  \/ src[i].kind \in {"break", "cont"} /\ LoopDepth(src, i) < Max({1, src[i].level})
  \/ src[i].kind = "include" /\ depth >= MaxDepth

\* r: [out, ok], what the reader has so far; loops: the loops around pc, innermost first,
\* each with the lists of its turns to come; lists: the lists around the template.
RECURSIVE ReadOn(_, _, _, _, _, _), Clause(_, _, _)
Clause(src, i, lists) ==   \* the piece after which to go on, of the clause at i
  LET others == {j \in i + 1 .. EndOf(src, Opener(src, i + 1)) : Depth(src, j) = Depth(src, i + 1)}
      next == Min({j \in others : src[j].kind \in {"elsif", "else", "endif"}})
  IN  IF src[i].kind \in {"else", "endif"} \/ IsTrue(src[i], lists) THEN i
      ELSE Clause(src, next, lists)
ReadOn(src, pc, loops, lists, depth, r) ==
  LET p    == src[pc]
      end  == Min({j \in pc .. Len(src) + 1 : j = Len(src) + 1 \/ ~ IsText(src, j, depth)})
      run  == [j \in 1 .. end - pc |->
                 IF src[pc + j - 1].kind = "text" THEN src[pc + j - 1].name ELSE "<"]
      here == IF loops = <<>> THEN lists ELSE Head(loops[1].turns)
      turns == LoopLists(here, p.name)
      value == ValueOf(here, p.name)
      n     == Max({1, p.level})
      go(at, in, more) == ReadOn(src, at, in, lists, depth, [r EXCEPT !.out = @ \o more])
      next  == [loops[1] EXCEPT !.turns = Tail(@)]
      sub   == Plain(sources[p.name])
  IN  CASE pc > Len(src) \/ ~ r.ok -> r
        [] pc <= Len(src) /\ r.ok ->
           CASE end > pc -> go(end, loops, WriteText(run))
             [] end = pc /\ p.kind \in {"comment", "endif"} -> go(pc + 1, loops, <<>>)
             [] end = pc /\ p.kind = "var" ->
                  go(pc + 1, loops, IF value # None THEN <<value>>
                                    ELSE IF p.value # None THEN <<p.value>> ELSE <<>>)
             [] end = pc /\ p.kind = "if" -> go(Clause(src, pc, here) + 1, loops, <<>>)
             [] end = pc /\ p.kind \in {"elsif", "else"} ->
                  go(EndOf(src, Opener(src, pc)), loops, <<>>)
             [] end = pc /\ p.kind = "loop" ->
                  IF turns = <<>> THEN go(EndOf(src, pc) + 1, loops, <<>>)
                  ELSE go(pc + 1, <<[at |-> pc, turns |-> turns]>> \o loops, <<>>)
             [] end = pc /\ p.kind = "endloop" ->
                  IF next.turns = <<>> THEN go(pc + 1, Tail(loops), <<>>)
                  ELSE go(next.at + 1, <<next>> \o Tail(loops), <<>>)
             [] end = pc /\ p.kind = "break" ->
                  go(EndOf(src, loops[n].at) + 1, SubSeq(loops, n + 1, Len(loops)), <<>>)
             [] end = pc /\ p.kind = "cont" ->
                  go(EndOf(src, loops[n].at), SubSeq(loops, n, Len(loops)), <<>>)
             [] end = pc /\ p.kind = "include" ->
                  ReadOn(src, pc + 1, loops, lists, depth,
                         IF p.name \notin readable \/ ~ Sound(sub) THEN [r EXCEPT !.ok = FALSE]
                         ELSE ReadOn(sub, 1, <<>>, here, depth + 1, r))

RECURSIVE Nodes(_)
Nodes(list) ==
  IF list = <<>> THEN 0
  ELSE 1 + Nodes(Head(list).body) + Nodes(Head(list).alt) + Nodes(Tail(list))

\* The parser reports an error exactly for the templates that are not well nested,
\* reads every template to its end, and links each node it allocates into the tree
\* once, errors or not, so that freetag frees all of them once.  (scan, parselist,
\* parseif, parseloop, newtag)
ParseAgrees ==
  phase = "parsed" =>
    /\ parsed.t.error = ~ Sound(sources[MainFile])
    /\ parsed.t.cur = NoTag /\ parsed.t.at > Len(sources[MainFile])
    /\ parsed.t.loop_depth = 0
    /\ Nodes(parsed.list) = parsed.t.made

\* The output is what the template says, loops left at any level, variables taken
\* from the innermost list that has them, and includes to the limit of their depth; a
\* template in error writes nothing.  No loop is still being left at the end.
\* (walk, write_text, is_true, valueof, findloop, TMPL_write)
WalkAgrees ==
  phase = "done" /\ MainFile \in readable =>
    LET src == Plain(sources[MainFile])
        r   == ReadOn(src, 1, <<>>, <<data>>, 0, [out |-> <<>>, ok |-> TRUE])
    IN  /\ result.leaving = 0
        /\ result.ok => Sound(src)
        /\ Sound(src) => result.out = r.out /\ result.ok = r.ok
        /\ ~ Sound(src) => result.out = <<>>
=============================================================================
