----------------------------- MODULE MCTemplate -----------------------------
(***************************************************************************)
(* Templates and data for module Template: all short templates, and longer *)
(* ones of loops inside loops and of files that include each other.        *)
(***************************************************************************)
EXTENDS Integers, Sequences

None == "none"
Piece(kind, name, value, level) ==
  [kind |-> kind, name |-> name, value |-> value, level |-> level]
Text(u) == Piece("text", u, None, 0)
Tag(kind, name) == Piece(kind, name, None, 0)
Leave(kind, n) == Piece(kind, None, None, n)
Comment == Piece("comment", None, None, 0)
OpenComment == Piece("open", None, None, 0)

Structure == {Text("t"), Tag("if", "v"), Piece("elsif", "v", "", 0), Tag("else", None), Tag("endif", None),
              Tag("loop", "l"), Tag("endloop", None), Comment, OpenComment}
Loops == {Tag("loop", "m"), Tag("loop", "l"), Tag("endloop", None), Tag("var", "v"),
          Leave("break", 0), Leave("break", 2), Leave("cont", 0), Leave("cont", 2),
          Tag("if", "w"), Tag("endif", None)}
Texts == {Text("t"), Text("bs"), Text("cr"), Text("nl"), Tag("bad", None),
          Piece("var", "x", "d", 0), Tag("include", "sub"), Tag("include", "main")}

UpToN(S, n) == UNION {[1 .. k -> S] : k \in 0 .. n}
InLoop(s) == <<Tag("loop", "l"), Text("a")>> \o s \o <<Text("b"), Tag("endloop", None), Text("c")>>
Subs == {<<Tag("var", "v")>>, <<Tag("endif", None)>>,
         <<Leave("break", 1), Tag("loop", "m"), Leave("break", 1), Tag("endloop", None)>>}
Ifs == {<<Piece("if", n, v, 0), Text("a"), Tag("elsif", "w"), Text("b"), Tag("else", None), Text("c"),
          Tag("endif", None)>> : n \in {"v", "l", "x"}, v \in {None, "", "1"}}
Files(main, sub) == [f \in {"main", "sub"} |-> IF f = "main" THEN main ELSE sub]
SampleSources ==
  {Files(s, <<>>) : s \in UpToN(Structure, 4) \cup Ifs}
    \cup {Files(InLoop(s), <<>>) : s \in UpToN(Loops, 3)}
    \cup {Files(InLoop(<<Tag("loop", "m"), Text("i")>> \o s \o <<Tag("endloop", None)>>), <<>>) :
          s \in UpToN(Loops, 2)}
    \cup {Files(s, sub) : s \in UpToN(Texts, 3), sub \in Subs}

Variable(name, value) == [name |-> name, value |-> value]
List(variables, loops) == [vars |-> variables, loops |-> loops]
Leaf(v) == List(<<Variable("v", v)>>, <<>>)
Inner == [name |-> "m", lists |-> <<Leaf("3"), List(<<Variable("w", "1")>>, <<>>), Leaf("")>>]
SampleData == {List(<<Variable("v", "1"), Variable("w", "")>>,
                << [name |-> "l", lists |-> <<List(<<Variable("v", "2")>>, <<Inner>>), List(<<>>, <<Inner>>)>>] >>)}
=============================================================================
