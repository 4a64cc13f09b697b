---------------------------- MODULE MCTemplates ----------------------------
(* Small configurations of the servers.                                    *)
EXTENDS Templates, TLC

CONSTANTS c1, c2

TwoUsers ==
    << [name |-> "admin", password |-> "p1", priv |-> 4, active |-> 1],
       [name |-> "guest", password |-> "p2", priv |-> 2, active |-> 0] >>

\* Hardware, what cannot be packed, and no list at all.
SomeLists == {[id |-> 17, index |-> 1], [id |-> 17, index |-> 6], [id |-> 99, index |-> 1]}

SomeObjects == ("door" :> ("value" :> "odd")) @@ ("valve" :> ("value" :> "plain"))

TwoOids == <<"level", "gauge">>

SomeThresholds ==
    [command \in {"get", "next", "bulk", "set"} |->
       CASE command = "get" -> [individual |-> 1, overall |-> 2]
         [] command = "next" -> [individual |-> 0, overall |-> 1]
         [] command = "set" -> [individual |-> 1, overall |-> 1]
         [] OTHER -> [individual |-> 0, overall |-> 0]]

Block(slave, name, start, size) ==
    [slave |-> slave, name |-> name, start |-> start, size |-> size]

\* Blocks that overlap in one slave or lie in several, in many orders.
SomeBlocks ==
    { <<Block(0, "zero", 2, 2), Block(1, "one", 2, 1), Block(2, "two", 1, 3)>>,
      <<Block(1, "a", 2, 2), Block(1, "b", 1, 2), Block(2, "c", 1, 1)>>,
      <<Block(1, "a", 2, 2), Block(1, "b", 4, 1), Block(1, "c", 1, 2), Block(255, "d", 1, 1)>> }

Node == [alias |-> NoNode, trigger |-> NoNode, proxy |-> FALSE, tarpit |-> NoNode,
         status |-> 200, size |-> 0, varies |-> FALSE, widths |-> <<>>]

\* A page in chunks with a tarpit nobody can read, another name for it, one
\* fetched from elsewhere, and one that a trigger replaces.
SomeNodes ==
    ("index" :> [Node EXCEPT !.size = 2, !.varies = TRUE, !.widths = <<1, 1>>,
                             !.tarpit = [low |-> "junk", high |-> "number"]])
    @@ ("root" :> [Node EXCEPT !.alias = "index"])
    @@ ("remote" :> [Node EXCEPT !.proxy = TRUE])
    @@ ("sub" :> [Node EXCEPT !.size = 1,
                              !.trigger = [needs |-> {"a", "b"}, appendix |-> "index"]])

Status == [proxy |-> FALSE, tarpit |-> NoNode, size |-> 1, varies |-> FALSE, widths |-> <<>>]

SomeStatuses ==
    (404 :> Status) @@ (501 :> [Status EXCEPT !.proxy = TRUE])
    @@ (503 :> [Status EXCEPT !.proxy = TRUE])

SomePaths ==
    [name : {"index", "root", "remote", "sub", "other"}, params : {{}, {"a", "b"}}]

HalfTarpit == [low |-> "junk", high |-> "none"]

\* Requests that are complete, too short, or whose words are no addresses.
Numerals == ("0" :> 0) @@ ("1" :> 1) @@ ("80" :> 80) @@ ("70000" :> 70000)

SomeRequests ==
    { <<"!AC", "1">>, <<"!AC", "0", "16", "10.0.0.1">>,
      <<"!AS", "10.0.0.1", "80">>, <<"!AS", "name">>,
      <<"!SA", "010000000001">>, <<"!SA", "10.0.0.1.9", "80">>,
      <<"!SB", "10.0.0.1", "70000">>,
      <<"!SC", "0", "10.0.0.1", "10.0.0.1", "10.0.0.1", "010000000001",
        "10.0.0.1", "10.0.0.1", "80", "80", "name">>,
      <<"!SC", "0", "10.0.0.1", "10.0.0.1", "10.0.0.1", "10.0.0.1",
        "10.0.0.1", "10.0.0.1", "80", "80", "name">>,
      <<"!SC", "1">>, <<"!SD", "name">>, <<"!SH", "0">>,
      <<"!SI", "0">>, <<"!SI", "10.0.0.1">>, <<"!SI", "010000000001">>,
      <<"!SK", "80", "0", "name">>, <<"!SN", "10.0.0.1", "name", "10.0.0.1">>,
      <<"!SP", "0", "80">>, <<"!SS", "A", "name">>, <<"!RC", "B", "name">>,
      <<"!RR">>, <<"!GC">>, <<"Q">> }
=============================================================================
