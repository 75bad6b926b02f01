-------------------------------- MODULE Cgic --------------------------------
(***************************************************************************)
(* cgic.c, the program around a CGI script's cgiMain: it parses the        *)
(* request into a list of form entries, with the files of a multipart      *)
(* request in temporary files, lets the script save and restore all of it, *)
(* and frees everything at the end.  Multipart input is read unit by unit. *)
(*                                                                         *)
(* At most one call of the system fails in a behaviour, fault says which;  *)
(* a full disk stays full for the rest of the call that meets it.  A read  *)
(* of a local file does not fail.                                          *)
(***************************************************************************)
EXTENDS CgiForm

CONSTANTS Request,    \* the requests: see Kinds
          Boundary,   \* the boundary of the Content-Type header
          Env,        \* the strings cgiServerSoftware .. cgiCookie, by getenv
          OtherEnv,   \* those of the later processes
          Garbage,    \* what a freed string may hold
          Faults,     \* what may fail: subset of {"alloc", "temp", "open", "disk"}
          Saves,      \* bound: the requests whose scripts save or restore
          MaxOps,     \* bound: environment calls of one process
          MaxRuns     \* bound: processes

\* kind: method and content type; parts: what the form held; input: what the
\* client sends of it; declared: CONTENT_LENGTH; whole: whether that is all of it;
\* cookies: the client's cookies, header: as it sends them.
Kinds == {"get", "urlencoded", "multipart", "other"}

ASSUME CgicAssumption == /\ \A r \in Request : r.kind \in Kinds
                         /\ \A r \in Request : r.input \in Text /\ r.declared \in Nat
                         /\ Boundary \in Text /\ Env \in Seq(Text)
                         /\ OtherEnv \in [DOMAIN Env -> Text] /\ Garbage \subseteq Text
                         /\ \A b \in Range(Boundary) : ~ IsSpace(b)
                         /\ MaxOps \in Nat /\ MaxRuns \in Nat

VARIABLES request,
          pc,
          strm,      \* mp
          boffset,   \* units of the boundary that are matched
          out,       \* the body so far, in memory or in the file
          part,      \* fvalue, fname, ffileName, fcontentType, tfileName, outf
          form,      \* the list from cgiFormEntryFirst
          temp,      \* the temporary files: their contents
          saved,     \* the file of cgiWriteEnvironment, Absent when there is none
          env,       \* cgiServerSoftware and the others, those that are freed or half
                     \* read, and cgiRestored
          status,    \* what the last call returned
          fault,
          ops, runs,
          kept       \* history: the form and the strings that were last written, and
                     \* whether cgiWriteEnvironment said that they are saved

parsing == <<strm, boffset, out, part>>
files == <<temp, saved>>
bounds == <<ops, runs, kept>>
vars == <<request, pc, parsing, form, files, env, status, fault, bounds>>

Absent == <<>>
Getenv(strings) == [strings |-> strings, wild |-> {}, restored |-> FALSE]
NoPart == [value |-> <<>>, name |-> <<>>, fileName |-> <<>>, type |-> <<>>,
           tfile |-> 0, outf |-> FALSE]

Init == /\ request \in Request
        /\ pc = "start"
        /\ strm = Fresh /\ boffset = 0 /\ out = <<>> /\ part = NoPart
        /\ form = <<>> /\ temp = <<>> /\ saved = Absent /\ env = Getenv(Env)
        /\ status = "none" /\ fault = "none"
        /\ ops = 0 /\ runs = 1 /\ kept = [view |-> <<>>, strings |-> Env, whole |-> FALSE]

Read(n) == MpRead(strm, n, request.input, request.declared)
Fails(what) == what \in Faults /\ fault = "none" /\ fault' = what
Without(files_, ids) == [t \in DOMAIN files_ \ ids |-> files_[t]]
With(files_, id, text) == [t \in DOMAIN files_ \cup {id} |-> IF t = id THEN text ELSE files_[t]]

\* mutant: the temporary files of the list are not unlinked
FreeKeepFiles(next) == form' = <<>> /\ temp' = temp /\ pc' = next
\* cgiFreeResources.  An entry whose memory is gone already is freed again.
FreeResources(next) ==
  IF \A i \in DOMAIN form : form[i].live
  THEN form' = <<>> /\ temp' = Without(temp, {form[i].tfile : i \in DOMAIN form}) /\ pc' = next
  ELSE pc' = "crashed" /\ UNCHANGED <<form, temp>>

\* The strings of a restored environment are freed too, all but cgiCookie.
FreeStrings ==
  IF env.restored
  THEN [env EXCEPT !.wild = @ \cup (DOMAIN Env \ {Len(Env)}), !.restored = FALSE]
  ELSE env

-----------------------------------------------------------------------------
(* main, up to the call of the parser                                      *)

Main ==
  /\ pc = "start"
  /\ UNCHANGED <<request, parsing, files, env, bounds>>
  /\ \/ /\ request.kind = "multipart" /\ request.declared > 0
        /\ pc' = "preamble"
        /\ UNCHANGED <<form, status, fault>>
     \/ /\ \/ request.kind = "get"
           \/ request.kind = "urlencoded" /\ Len(request.input) = request.declared
        /\ form' = ParseFormInput(request.input)
        /\ pc' = "main" /\ status' = "parsed"
        /\ UNCHANGED fault
     \/ /\ \/ request.kind \in {"urlencoded", "get"} /\ Fails("alloc")
           \/ /\ request.kind = "urlencoded" /\ Len(request.input) < request.declared
              /\ UNCHANGED fault
        /\ pc' = "done" /\ status' = "failed"
        /\ UNCHANGED form
     \/ /\ request.kind = "other" \/ request.declared = 0
        /\ request.kind \in {"other", "multipart"}
        /\ pc' = "main" /\ status' = "parsed"
        /\ UNCHANGED <<form, fault>>

-----------------------------------------------------------------------------
(* cgiParsePostMultipartInput                                              *)

\* The parser gives up, and main frees what is in the list.
GiveUp(others) ==
  /\ form' = <<>> /\ pc' = "done" /\ status' = "failed"
  /\ temp' = Without(temp, others \cup {form[i].tfile : i \in DOMAIN form})
Unfinished == IF part.outf THEN {part.tfile} ELSE {}

\* The end of the input where a boundary should be: an empty submission at the
\* beginning, later an error.
NoBoundary ==
  \/ /\ pc \in {"preamble", "preambleEnd"}
     /\ pc' = "main" /\ status' = "parsed"
     /\ UNCHANGED <<form, temp>>
  \/ pc \in {"body", "bodyEnd"} /\ GiveUp(Unfinished)

WorkingBoundary ==
  (IF pc = "preamble" THEN <<>> ELSE <<CR, LF>>) \o <<Dash, Dash>> \o Boundary

\* mutant: nothing is
PutNone(n) == <<>>
\* What a mismatch after n matched units puts back, besides the unit itself.
PutAgain(n) == SubSeq(WorkingBoundary, 2, n)

\* afterNextBoundary, one turn of its loop
BoundaryUnit ==
  LET r == Read(1) IN
  /\ pc \in {"preamble", "body"}
  /\ strm' = IF r.got # <<>> /\ r.got[1] # WorkingBoundary[boffset + 1] /\ boffset > 0
             THEN MpPutBack(MpPutBack(r.s, PutAgain(boffset)), r.got)
             ELSE r.s
  /\ \/ /\ r.got = <<>>
        /\ NoBoundary
        /\ UNCHANGED <<boffset, out>>
     \/ /\ r.got = <<WorkingBoundary[boffset + 1]>>
        /\ IF boffset + 1 = Len(WorkingBoundary)
           THEN boffset' = 0 /\ pc' = IF pc = "preamble" THEN "preambleEnd" ELSE "bodyEnd"
           ELSE boffset' = boffset + 1 /\ UNCHANGED pc
        /\ UNCHANGED <<out, form, temp, status>>
     \/ /\ r.got # <<>> /\ r.got # <<WorkingBoundary[boffset + 1]>>
        /\ out' = IF pc = "preamble" THEN <<>>
                  ELSE Append(out, IF boffset > 0 THEN WorkingBoundary[1] ELSE r.got[1])
        /\ boffset' = 0
        /\ UNCHANGED <<pc, form, temp, status>>
  /\ UNCHANGED <<request, part, saved, env, fault, bounds>>

\* The newline after the boundary is taken, the "--" of the last one put back.
EndTaken(r) == r.s   \* mutant: the "--" is taken too
EndMark(r) == IF Len(r.got) = 2 /\ r.got[1] = Dash THEN MpPutBack(r.s, r.got) ELSE r.s
BoundaryEnd ==
  LET r == Read(2) IN
  /\ pc \in {"preambleEnd", "bodyEnd"}
  /\ strm' = EndMark(r)
  /\ \/ Len(r.got) < 2 /\ NoBoundary
     \/ /\ Len(r.got) = 2
        /\ pc' = IF pc = "preambleEnd" THEN "next" ELSE "link"
        /\ UNCHANGED <<form, temp, status>>
  /\ UNCHANGED <<request, boffset, out, part, saved, env, fault, bounds>>

NextPart ==
  LET r == Read(2) IN
  /\ pc = "next"
  /\ part' = NoPart /\ out' = <<>>
  /\ \/ /\ Len(r.got) < 2 \/ r.got = <<Dash, Dash>>
        /\ strm' = r.s
        /\ pc' = "main" /\ status' = "parsed"
     \/ /\ Len(r.got) = 2 /\ r.got # <<Dash, Dash>>
        /\ strm' = MpPutBack(r.s, r.got)
        /\ pc' = "header"
        /\ UNCHANGED status
  /\ UNCHANGED <<request, boffset, form, files, env, fault, bounds>>

\* A part that is not form data is not skipped: its body is read as headers.
Header ==
  LET h == HeaderLine(strm, request.input, request.declared)
      d == Decompose(h.value)
  IN  /\ pc = "header"
      /\ strm' = h.s
      /\ \/ /\ h.more /\ h.attr = <<Disposition>> /\ d.args.known
            /\ part' = [part EXCEPT !.value = d.main, !.name = d.args.name,
                                    !.fileName = d.args.fileName]
            /\ UNCHANGED pc
         \/ /\ h.more /\ h.attr = <<Disposition>> /\ ~ d.args.known
            /\ pc' = "crashed"
            /\ UNCHANGED part
         \/ /\ h.more /\ h.attr = <<ContentType>>
            /\ part' = [part EXCEPT !.type = d.main]
            /\ UNCHANGED pc
         \/ /\ h.more /\ h.attr \notin {<<Disposition>>, <<ContentType>>}
            /\ UNCHANGED <<pc, part>>
         \/ /\ ~ h.more
            /\ pc' = IF part.value = <<FormData>> THEN "open" ELSE "next"
            /\ UNCHANGED part
      /\ UNCHANGED <<request, boffset, out, form, files, env, status, fault, bounds>>

\* getTempFileName: a name that no temporary file has.
NewTempFile == Min((1 .. Cardinality(DOMAIN temp) + 1) \ DOMAIN temp)

\* A file goes to a temporary file, anything else to memory; so does a file whose
\* fopen fails.
OpenBody ==
  LET id == NewTempFile IN
  /\ pc = "open"
  /\ \/ /\ part.fileName = <<>>
        /\ pc' = "body"
        /\ UNCHANGED <<part, form, temp, status, fault>>
     \/ /\ part.fileName # <<>>
        /\ pc' = "body"
        /\ temp' = With(temp, id, <<>>)
        /\ \/ UNCHANGED fault /\ part' = [part EXCEPT !.tfile = id, !.outf = TRUE]
           \/ Fails("open") /\ part' = [part EXCEPT !.tfile = id]
        /\ UNCHANGED <<form, status>>
     \/ /\ part.fileName # <<>>
        /\ Fails("temp")
        /\ GiveUp({})
        /\ UNCHANGED part
  /\ UNCHANGED <<request, strm, boffset, out, saved, env, bounds>>

\* What the list gets for the part that has been read.
PartEntry == FormEntry(part.name, IF part.outf THEN <<>> ELSE out, Len(out),
                       part.fileName, part.type, part.tfile)

\* The entry is linked before all of its fields are allocated: when one of the
\* last fails it is freed and stays in the list.  What is written to the file is not
\* checked: a full disk leaves it shorter than the entry says.
Link ==
  /\ pc = "link"
  /\ \/ /\ form' = Append(form, PartEntry)
        /\ \/ /\ temp' = IF part.outf THEN With(temp, part.tfile, out) ELSE temp
              /\ UNCHANGED fault
           \/ /\ part.outf /\ Fails("disk")
              /\ \E n \in 0 .. Len(out) - 1 : temp' = With(temp, part.tfile, SubSeq(out, 1, n))
        /\ pc' = "next"
        /\ UNCHANGED status
     \/ /\ Fails("alloc")
        /\ GiveUp(Unfinished)
     \/ /\ Fails("alloc")
        /\ form' = Append(form, [PartEntry EXCEPT !.live = FALSE])
        /\ temp' = Without(temp, Unfinished)
        /\ pc' = "return" /\ status' = "failed"
  /\ UNCHANGED <<request, parsing, saved, env, bounds>>

-----------------------------------------------------------------------------
(* cgiWriteEnvironment and cgiReadEnvironment.  The file is a sequence of  *)
(* ints and chars; the bytes of a char read as an int make one that is     *)
(* larger than what is left of any file.                                   *)

OneInt(n) == [int |-> TRUE, v |-> n]
Chars(s) == [i \in 1 .. Len(s) |-> [int |-> FALSE, v |-> s[i]]]
WriteString(s) == <<OneInt(Len(s))>> \o Chars(s)
Version == <<67, 71, 73, 67>>

\* mutant: never a file
NoFileOf(i) == 0
\* cgiFormFileOpen finds the first entry of that name, not the entry itself.
FileOf(i) ==
  LET j == Min({k \in DOMAIN form : form[k].attr = form[i].attr}) IN form[j].tfile
\* An entry whose file cannot be opened is written as one that has none.
WriteEntry(i, unopened) ==
  WriteString(form[i].attr) \o WriteString(CString(form[i].value))
    \o WriteString(form[i].fileName) \o WriteString(form[i].contentType)
    \o <<OneInt(form[i].length)>>
    \o (IF FileOf(i) > 0 /\ i # unopened THEN <<OneInt(1)>> \o Chars(temp[FileOf(i)])
        ELSE <<OneInt(0)>>)
Environment(strings, unopened) ==
  WriteString(Version) \o FlattenSeq([i \in DOMAIN Env |-> WriteString(strings[i])])
    \o <<OneInt(request.declared)>>
    \o FlattenSeq([i \in DOMAIN form |-> WriteEntry(i, unopened)])

\* What the strings may be: those that are freed or half read, anything.
Strings == {s \in [DOMAIN Env -> Garbage \cup Range(env.strings)] :
              \A i \in DOMAIN Env :
                IF i \in env.wild THEN s[i] \in Garbage ELSE s[i] = env.strings[i]}

\* What a script can see of an entry, wherever it is kept.
View(e, temps) ==
  [attr |-> e.attr, fileName |-> e.fileName, type |-> e.contentType,
   length |-> e.length, isFile |-> e.tfile > 0,
   content |-> IF e.tfile > 0 THEN temps[e.tfile] ELSE CString(e.value)]
FormView == [i \in DOMAIN form |-> View(form[i], temp)]

\* It says "saved" also when the file of an entry cannot be opened, and when the disk
\* is full at the last fclose; a write that is checked fails and removes the file.
\* The process may be killed while it writes, also by a string that is not there.
WriteEnvironment ==
  /\ pc = "main" /\ request \in Saves /\ ops < MaxOps
  /\ ops' = ops + 1
  /\ \/ \E strings \in Strings :
          /\ \/ /\ \/ saved' = Environment(strings, 0) /\ UNCHANGED fault
                   \/ /\ Fails("alloc") \/ Fails("open")
                      /\ \E i \in {k \in DOMAIN form : FileOf(k) > 0} :
                           saved' = Environment(strings, i)
                   \/ /\ Fails("disk")
                      /\ \E n \in 0 .. Len(Environment(strings, 0)) - 1 :
                           saved' = SubSeq(Environment(strings, 0), 1, n)
                /\ pc' = "main" /\ status' = "saved"
                /\ kept' = [view |-> FormView, strings |-> strings, whole |-> TRUE]
             \/ /\ \E n \in 1 .. Len(Environment(strings, 0)) - 1 :
                     saved' = SubSeq(Environment(strings, 0), 1, n)
                /\ pc' = "killed" /\ status' = "none"
                /\ kept' = [view |-> FormView, strings |-> strings, whole |-> FALSE]
                /\ UNCHANGED fault
     \/ /\ Fails("disk")
        /\ saved' = Absent /\ status' = "io"
        /\ UNCHANGED <<pc, kept>>
     \/ /\ Fails("open")
        /\ status' = "io"
        /\ UNCHANGED <<pc, saved, kept>>
  /\ UNCHANGED <<request, parsing, form, temp, env, runs>>

Saved == Seq([int : BOOLEAN, v : Nat])

\* What is left of the file after a read, and the value read; ok is what the
\* function returns.
Unread == [ok |-> FALSE, v |-> 0, rest |-> <<>>]
ReadInt(f) ==
  IF f = <<>> THEN Unread
  ELSE [ok |-> TRUE, v |-> IF f[1].int THEN f[1].v ELSE Len(f), rest |-> Tail(f)]
ReadString(f) ==
  LET n == ReadInt(f)
  IN  IF n.ok /\ n.v <= Len(n.rest)
      THEN [ok |-> TRUE, v |-> [i \in 1 .. n.v |-> n.rest[i].v], rest |-> Drop(n.rest, n.v)]
      ELSE Unread
ReadOneString(r) ==
  LET s == ReadString(r.rest)
  IN  IF r.ok /\ s.ok THEN [ok |-> TRUE, rest |-> s.rest, list |-> Append(r.list, s.v)]
      ELSE [r EXCEPT !.ok = FALSE]
ReadStrings(f, n) ==
  Repeat([ok |-> TRUE, rest |-> f, list |-> <<>>], n,
         [r \in [ok : BOOLEAN, rest : Saved, list : Seq(Text)] |-> ReadOneString(r)])

\* The entries in f, each with what goes to its file; the list ends where no name
\* begins.
SavedEntries == [attr : Text, value : Text, length : Nat, fileName : Text, type : Text,
                 isFile : BOOLEAN, text : Text]
ReadOneEntry(r) ==
  LET attr  == ReadString(r.rest)
      value == ReadString(attr.rest)
      name  == ReadString(value.rest)
      type  == ReadString(name.rest)
      size  == ReadInt(type.rest)
      flag  == ReadInt(size.rest)
      n     == IF flag.v = 0 THEN 0 ELSE size.v
      entry == [attr |-> attr.v, value |-> value.v, length |-> size.v, fileName |-> name.v,
                type |-> type.v, isFile |-> flag.v # 0, text |-> [i \in 1 .. n |-> flag.rest[i].v]]
  IN  CASE ~ r.ok \/ ~ attr.ok -> r
        [] r.ok /\ attr.ok /\ flag.ok /\ n <= Len(flag.rest) ->
             [ok |-> TRUE, rest |-> Drop(flag.rest, n), list |-> Append(r.list, entry)]
        [] r.ok /\ attr.ok /\ ~ (flag.ok /\ n <= Len(flag.rest)) -> [r EXCEPT !.ok = FALSE]
ReadEntries(f) ==
  Repeat([ok |-> TRUE, rest |-> f, list |-> <<>>], Len(f),
         [r \in [ok : BOOLEAN, rest : Saved, list : Seq(SavedEntries)] |-> ReadOneEntry(r)])

\* What the file holds: the version and the strings, and when ok says that it can be
\* read to its end, the entries.
Restored(f) ==
  LET read    == ReadStrings(f, 1 + Len(Env))
      entries == ReadEntries(Tail(read.rest))
  IN  IF f # Absent /\ read.ok /\ read.rest # <<>>
      THEN [ok |-> entries.ok, list |-> entries.list, strings |-> read.list]
      ELSE [ok |-> FALSE, list |-> <<>>, strings |-> read.list]

\* The temporary files that are not of the list, and the number the new ones are above.
Old == Without(temp, {form[i].tfile : i \in DOMAIN form})
Base == Max({0} \cup (DOMAIN temp \ {form[i].tfile : i \in DOMAIN form}))

\* The first n entries of list become the form, and the strings of the file are taken.
\* The entries that are no files get a tfileName nobody writes; it is taken as the
\* name of no file here.
Restore(strings, list, n) ==
  LET ids == {Base + i : i \in {k \in 1 .. n : list[k].isFile}}
  IN  /\ form' = [i \in 1 .. n |->
                    FormEntry(list[i].attr, list[i].value, list[i].length, list[i].fileName,
                              list[i].type, IF list[i].isFile THEN Base + i ELSE 0)]
      /\ temp' = [t \in DOMAIN Old \cup ids |->
                    IF t \in ids THEN list[t - Base].text ELSE Old[t]]
      /\ env' = [strings |-> [i \in DOMAIN Env |-> strings[i + 1]],
                 wild |-> {}, restored |-> TRUE]
      /\ status' = "restored"

\* The version and n - 1 strings have been read, the next is half read.
Refuse(strings, n, files_) ==
  /\ form' = <<>> /\ temp' = files_ /\ status' = "io"
  /\ env' = [strings |-> [i \in DOMAIN Env |-> IF i < n THEN strings[i + 1]
                                               ELSE env.strings[i]],
             wild |-> (FreeStrings.wild \ 1 .. n) \cup ({n} \cap DOMAIN Env),
             restored |-> FALSE]

\* cgiReadEnvironment frees what there is before it looks for the file.  The name
\* of an entry that cannot be allocated ends the list as the end of the file does; a
\* temporary file may be cut by a full disk at its fclose.
ReadEnvironment ==
  \E read \in {Restored(saved)} :
    LET uploads == {i \in DOMAIN read.list : read.list[i].isFile}
        last    == Len(read.strings)
        Takes(list, n)    == Restore(read.strings, list, n)
        Leaves(n, files_) == Refuse(read.strings, n, files_)
    IN  /\ pc = "main" /\ request \in Saves /\ ops < MaxOps
        /\ ops' = ops + 1
        /\ \/ read.ok /\ Takes(read.list, Len(read.list)) /\ UNCHANGED fault
           \/ read.ok /\ Fails("alloc") /\ \E n \in 0 .. Len(read.list) - 1 : Takes(read.list, n)
           \/ /\ read.ok /\ Fails("disk")
              /\ \E i \in uploads : \E n \in 0 .. Len(read.list[i].text) - 1 :
                   Takes([read.list EXCEPT ![i].text = SubSeq(@, 1, n)], Len(read.list))
           \/ ~ read.ok /\ Leaves(last, Old) /\ UNCHANGED fault
           \/ saved # Absent /\ Fails("open") /\ Leaves(0, Old)
           \/ saved # Absent /\ Fails("alloc") /\ \E n \in 0 .. last : Leaves(n, Old)
           \/ read.ok /\ uploads # {} /\ (Fails("temp") \/ Fails("disk")) /\ Leaves(last, Old)
           \/ read.ok /\ uploads # {} /\ Fails("open") /\ Leaves(last, With(Old, Base + 1, <<>>))
        /\ UNCHANGED <<request, pc, parsing, saved, runs, kept>>

\* cgiMain returns, or the parser has failed.
Return == /\ pc \in {"main", "return"}
          /\ FreeResources("done")
          /\ env' = FreeStrings
          /\ UNCHANGED <<request, parsing, saved, status, fault, bounds>>

\* Another process, which has no form of its own; the files a killed process has
\* left behind are not followed.
Rerun == /\ pc \in {"done", "killed"} /\ request \in Saves /\ runs < MaxRuns
         /\ pc' = "main" /\ runs' = runs + 1 /\ ops' = 0
         /\ strm' = Fresh /\ boffset' = 0 /\ out' = <<>> /\ part' = NoPart
         /\ form' = <<>> /\ temp' = <<>> /\ env' = Getenv(OtherEnv) /\ status' = "none"
         /\ UNCHANGED <<request, saved, fault, kept>>

Next == \/ Main \/ BoundaryUnit \/ BoundaryEnd \/ NextPart \/ Header
        \/ OpenBody \/ Link
        \/ WriteEnvironment \/ ReadEnvironment \/ Return \/ Rerun

Spec == Init /\ [][Next]_vars
-----------------------------------------------------------------------------
(* What the client means: the browser's side of the two encodings          *)

\* A part of the form: [data, name, fileName, type, body]; data is whether it is form-data.
SentEntry(p) == [attr |-> p.name, fileName |-> p.fileName, type |-> p.type,
                 length |-> Len(p.body), isFile |-> p.fileName # <<>>,
                 content |-> IF p.fileName # <<>> THEN p.body ELSE CString(p.body)]
Sent == LET data == SelectSeq(request.parts, LAMBDA p : p.data)
        IN  [i \in DOMAIN data |-> SentEntry(data[i])]

\* The form holds what the client has sent: however the body was cut, the entries
\* are the first of those sent, with their names, types and bodies, bodies full of
\* pieces of the boundary included; and they are all there once a whole request
\* that holds nothing but form data has been parsed.  (afterNextBoundary,
\* readHeaderLine, decomposeValue; cgiParseFormInput, cgiUnescapeChars)
FormAsSent ==
  runs = 1 /\ ops = 0 /\ fault = "none" /\ pc \notin {"done", "crashed"} =>
    /\ IsPrefix(FormView, Sent)
    /\ pc = "main" /\ request.whole /\ (\A i \in DOMAIN request.parts : request.parts[i].data)
         => FormView = Sent

\* A temporary file belongs to an entry of the list or to the part being read, and
\* none is left when the process ends by itself, whichever call has failed; only
\* the file of a failed fopen may be forgotten.  (getTempFileName, the error paths
\* of cgiParsePostMultipartInput and of cgiReadEnvironment, cgiFreeResources)
TempFilesOwned ==
  /\ \A i \in DOMAIN form :
       form[i].live /\ form[i].tfile > 0 =>
         /\ form[i].tfile \in DOMAIN temp
         /\ \A j \in DOMAIN form : form[j].tfile = form[i].tfile => i = j
  /\ fault # "open" =>
       DOMAIN temp \ {form[i].tfile : i \in DOMAIN form}
         \subseteq IF pc \in {"body", "bodyEnd", "link"} THEN {part.tfile} ELSE {}

\* What may become of an entry e: r is e itself, or when one call has failed e without
\* its file, or e with a part of it.
Survives(e, r) ==
  \/ r = e
  \/ fault \in {"alloc", "open"} /\ e.isFile /\ ~ r.isFile
       /\ r.attr = e.attr /\ r.fileName = e.fileName /\ r.type = e.type /\ r.length = e.length
  \/ fault = "disk" /\ e.isFile /\ IsPrefix(r.content, e.content)
       /\ r = [e EXCEPT !.content = r.content]
\* The entries of view are the first of those of was, all but one as they were.
Brings(was, view) ==
  /\ Len(view) <= Len(was)
  /\ \A i \in DOMAIN view : Survives(was[i], view[i])
  /\ \A i, j \in DOMAIN view : view[i] # was[i] /\ view[j] # was[j] => i = j

\* What cgiReadEnvironment restores is what was written, strings and files included,
\* also in another process: of a file that a killed process has left incomplete the
\* first entries, of one that cgiWriteEnvironment says it has saved all of them.  The
\* call that fails may cost the file of one entry, or its end, a failed allocation also
\* the last entries, a full disk the end of what was saved; where nothing has failed
\* nothing is refused.  (When each file has its name to itself, as files are saved by
\* name, and has the length its entry says, as it has not when its fopen or a write to
\* it has failed.)
Savable(view) ==
  \A i \in DOMAIN view : view[i].isFile =>
    /\ view[i].length = Len(view[i].content)
    /\ \A j \in DOMAIN view : view[j].attr = view[i].attr => i = j
EnvRestored ==
  pc = "main" /\ Savable(kept.view) =>
    /\ status = "restored" => Brings(kept.view, FormView) /\ env.strings = kept.strings
    /\ status = "restored" /\ kept.whole /\ fault \notin {"alloc", "disk"}
         => Len(FormView) = Len(kept.view)
    /\ status = "io" /\ kept.whole => fault # "none"

\* While a whole request is read, nothing behind its end is asked for: a read
\* there would wait for the server to close the pipe.  (mpRead)
StaysInBody == request.whole => ~ strm.past

\* How a browser reads what cgiHtmlEscape and cgiValueEscape write.
ReadHtml[s \in Text] ==
  LET known == {c \in {Lt, Gt, Amp, Quote} : IsPrefix(Entity(c), s)}
  IN  IF s = <<>> THEN <<>>
      ELSE IF known = {} THEN <<Head(s)>> \o ReadHtml[Tail(s)]
      ELSE LET c == CHOOSE d \in known : TRUE
           IN  <<c>> \o ReadHtml[Drop(s, Len(Entity(c)))]
\* The newlines that stand for a burst of CRs and LFs, and a text with its bursts so.
Burst(v, i) ==
  LET start == Max({0} \cup {k \in 1 .. i - 1 : ~ IsNewline(v[k])})
      count(c) == Cardinality({k \in start + 1 .. i - 1 : v[k] = c})
  IN  [k \in 1 .. Max({count(CR), count(LF)}) |-> LF]
Normalised(v) ==
  FlattenSeq([i \in 1 .. Len(v) |-> IF IsNewline(v[i]) THEN <<>> ELSE Append(Burst(v, i), v[i])])
    \o Burst(v, Len(v) + 1)
\* The answers agree with the form: text comes back with every burst of CRs and LFs
\* as the larger number of LFs, cut at max - 1 and said to be cut only then; the
\* space asked for is enough; each name is listed once; a choice is marked iff some
\* value names it; a number is within its bounds; what is escaped reads back as the
\* value and holds no markup.  (cgiFormEntryString and the cgiForm functions)
AnswersAgree ==
  pc = "main" /\ status = "parsed" =>
    \A i \in DOMAIN form :
      LET name   == form[i].attr
          Value(j) == CString(form[j].value)
          first  == CString(Named(form, name)[1].value)
          text   == Normalised(first)
          values == {Value(j) : j \in {k \in DOMAIN form : form[k].attr = name}}
          choices == <<Value(Len(form)), Value(1)>>
          chosen == SelectMultiple(form, name, choices)
          single == SelectSingle(form, name, choices, 9)
          number == FormIntegerBounded(form, name, 0, 1, 9)
      IN  /\ \A max \in 1 .. Len(first) + 2 :
               LET r == FormString(form, name, max, TRUE)
               IN  /\ r.out = SubSeq(text, 1, Min({max - 1, Len(text)}))
                   /\ r.status = "truncated" <=> Len(text) > max - 1
          /\ FormString(form, name, SpaceNeeded(form, name), TRUE).status # "truncated"
          /\ StringMultiple(form, name)[1] = text
          /\ FormString(form, name, Len(first) + 1, FALSE).out
               = SelectSeq(first, LAMBDA c : ~ IsNewline(c))
          /\ \A max \in 1 .. 2 :
               LET r == FileField(form[i].fileName, max)
               IN  r.status # "truncated" => r.out = form[i].fileName
          /\ FileSize(form, name).status = "success" <=> Named(form, name)[1].tfile > 0
          /\ IF number.status \in {"success", "constrained"} THEN number.result \in 0 .. 1
             ELSE number.result = 9
          /\ IF single.result = 9 THEN first \notin Range(choices)
             ELSE choices[single.result + 1] = first
          /\ ReadHtml[HtmlEscape(first)] = first /\ ReadHtml[ValueEscape(first)] = ReadHtml[first]
          /\ Range(HtmlEscape(first)) \cap {Lt, Gt} = {}
          /\ Cardinality({k \in DOMAIN FormEntries(form) : FormEntries(form)[k] = name}) = 1
          /\ \A k \in 1 .. 2 : choices[k] \in values => \E j \in chosen.marked : choices[j] = choices[k]
          /\ chosen.invalid = Cardinality({k \in DOMAIN form : form[k].attr = name
                                             /\ Value(k) \notin Range(choices)})

\* The cookie asked for is the one the client has set under that very name, the
\* first of them, and cgiCookies lists the names in order.  (cgiCookieString)
CookiesFound ==
  pc = "start" =>
  LET cookies == request.cookies IN
  /\ Cookies[request.header] = [i \in DOMAIN cookies |-> cookies[i].name]
  /\ \A i \in DOMAIN cookies :
       (\A j \in 1 .. i - 1 : cookies[j].name # cookies[i].name) =>
         LET n == Len(cookies[i].value)
             CookieOf(space) == CookieString(request.header, cookies[i].name, space)
         IN  /\ CookieOf(n + 1) = [out |-> cookies[i].value, status |-> "success"]
             /\ n > 0 => CookieOf(n) = [out |-> SubSeq(cookies[i].value, 1, n - 1),
                                        status |-> "truncated"]
=============================================================================
