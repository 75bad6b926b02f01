\* A ring of four cells met by blocks of up to four bytes; three lists and two loops;
\* bitmaps that grow twice; packets of every kind of type; two
\* processes on two names that open two connections between them;
\* all short templates, and longer ones of loops inside loops.
SPECIFICATION LibrarySpec
CONSTANTS
  Byte = {0, 1}
  Zero = 0
  Size = 3
  MaxLen = 4
  Varlist = {v1, v2, v3}
  Loop = {l1, l2}
  Var = {x}
  MaxVars = 1
  Set = {"read", "write"}
  FD_SETSIZE = 2
  MaxFd = 5
  MaxCapacity = 4
  Tlvs <- MCTlvs
  Sizes <- MCSizes
  Process = {p1, p2}
  Name = {"ann", "bob"}
  Password = {"x"}
  Ip = {"i"}
  Befriended <- MCBefriended
  MaxId = 3
  MaxConns = 2
  File <- MCFiles
  Sources <- MCSources
  Data <- MCData
  MaxDepth = 2
  MainFile = "main"
INVARIANTS
  TypeOK
  Forest
  OwnedOnce
  MarksExact
  RoundTrip
  OwnFriends
  ClosesClean
  ParseAgrees
  WalkAgrees
PROPERTIES
  ImplementsByteQueue
\* A packet ends when it is unpacked or refused, a template when it is written.
CHECK_DEADLOCK FALSE
