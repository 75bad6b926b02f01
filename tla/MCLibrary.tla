----------------------------- MODULE MCLibrary -----------------------------
(***************************************************************************)
(* The parts of the system that are libraries to it, side by side: each    *)
(* behaviour exercises one of them while the others stay as they begin.    *)
(***************************************************************************)
EXTENDS RingBuffer, VarTree, DescriptorSets, Tlv, Accounts

CONSTANTS File, Sources, Data, MaxDepth, MainFile

VARIABLES part,
          sources, lists, readable, stage, parsed, result

Tmpl == INSTANCE Template WITH data <- lists, phase <- stage
Samples == INSTANCE MCTemplate

tmplVars == <<sources, lists, readable, stage, parsed, result>>

LibraryInit ==
  /\ part \in {"buffer", "tree", "marks", "packets", "dao", "tmpl"}
  /\ Init /\ TreeInit /\ MarksInit /\ PacketsInit /\ DaoInit
  /\ part # "packets" => tlv = CHOOSE t \in Tlvs : TRUE
  /\ part # "dao" => accounts = 0
  /\ IF part = "tmpl" THEN Tmpl!Init
     ELSE /\ sources = <<>> /\ lists = <<>> /\ readable = {} /\ stage = "idle"
          /\ parsed = <<>> /\ result = <<>>

\* The others stay as they are.
Buffer == part = "buffer" /\ Next /\ UNCHANGED <<treeVars, marksVars, packetsVars, daoVars, tmplVars>>
Trees == part = "tree" /\ TreeNext /\ UNCHANGED <<vars, marksVars, packetsVars, daoVars, tmplVars>>
Bitmaps == part = "marks" /\ MarksNext /\ UNCHANGED <<vars, treeVars, packetsVars, daoVars, tmplVars>>
Packing == part = "packets" /\ PacketsNext /\ UNCHANGED <<vars, treeVars, marksVars, daoVars, tmplVars>>
Members == part = "dao" /\ DaoNext /\ UNCHANGED <<vars, treeVars, marksVars, packetsVars, tmplVars>>
Pages == part = "tmpl" /\ Tmpl!Next /\ UNCHANGED <<vars, treeVars, marksVars, packetsVars, daoVars>>

LibraryNext ==
  UNCHANGED part /\ (Buffer \/ Trees \/ Bitmaps \/ Packing \/ Members \/ Pages)

LibrarySpec ==
  LibraryInit
    /\ [][LibraryNext]_<<part, vars, treeVars, marksVars, packetsVars, daoVars, tmplVars>>

-----------------------------------------------------------------------------
\* The parser tells well nested templates from others. (scan, parselist)
ParseAgrees == Tmpl!ParseAgrees

\* The output is what the template says. (walk, TMPL_write)
WalkAgrees == Tmpl!WalkAgrees

-----------------------------------------------------------------------------
TlvOf(id, type, value) == [id |-> id, type |-> type, value |-> value]
MCTlvs ==
  {TlvOf(id, type, value) :
     id \in {1, 258}, type \in {1, 3, 5, 7, 9}, value \in {<<>>, <<7>>, <<7, 8>>, <<1, 2, 3, 4, 5>>}}
MCSizes == 0 .. 12
MCFiles == {"main", "sub"}
MCSources == Samples!SampleSources
MCData == Samples!SampleData
MCBefriended == {<<1, 2>>, <<2, 1>>}
=============================================================================
