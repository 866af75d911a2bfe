----------------------------- MODULE MCTestSuite -----------------------------
(* Two runs over a small tree: markers that reach their test and a stray     *)
(* one that code cuts off, a directory that is excluded, and tests that may   *)
(* fail, race, hang, crash, quit or leave a process behind.                   *)
EXTENDS TestSuite

Line(is) == [is |-> is]
Test(does) == [is |-> "test", raises |-> TRUE, does |-> does]

\* The package os/exec is the one whose tests end processes.
MCFiles == <<
    [dir |-> <<"lint">>, lines |-> <<Test({"fails"})>>],
    [dir |-> <<"os">>,
     lines |-> <<Line("slow"), Line("code"), Test({"passes", "leaves"}),
                 Line("slow"), Line("comment"), Line("no-race"), Line("blank"),
                 Test({"passes", "hangs"})>>],
    [dir |-> <<"os", "exec">>,
     lines |-> <<Line("no-race"), Test({"passes", "crashes", "quits"})>>],
    [dir |-> <<"os", "user">>,
     lines |-> <<Test({"passes"})>>],
    [dir |-> <<"sync">>,
     lines |-> <<Test({"passes", "fails", "races"})>>],
    [dir |-> <<"zip">>,
     lines |-> <<[is |-> "test", raises |-> FALSE, does |-> {"passes"}]>>] >>

Ask(only, short, race, part, deadline) ==
    [tree |-> CHOOSE tree \in Trees : TRUE, where |-> TESTS, only |-> only, short |-> short, race |-> race,
     part |-> part, deadline |-> deadline]

MCAsks ==
    {Ask(<<"os">>, FALSE, FALSE, Whole, TRUE),
     Ask(<<"os">>, FALSE, TRUE, <<1, 2>>, TRUE),
     Ask(<<"os">>, FALSE, TRUE, <<2, 2>>, FALSE),
     Ask(<<"sync">>, TRUE, TRUE, Whole, FALSE),
     Ask(<<"os">>, TRUE, FALSE, <<1, 2>>, FALSE),
     Ask(<<"os">>, TRUE, FALSE, <<2, 2>>, FALSE),
     Ask(<<"os">>, FALSE, FALSE, <<3, 3>>, FALSE),
     Ask(NoPackage, FALSE, FALSE, Whole, FALSE),
     Ask(<<"os", "exec">>, FALSE, TRUE, Whole, FALSE),
     Ask(<<"fmt">>, FALSE, FALSE, Whole, FALSE)}
=============================================================================
