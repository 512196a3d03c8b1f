---------------------------- MODULE MCAgentProcess ----------------------------
(* AgentProcess with up to two exposures, correct and mistaken documents.      *)
EXTENDS AgentProcess

Path(f)     == [path |-> f, form |-> "clean"]
Written(f, form) == [path |-> f, form |-> form]
Exp(n, ts)  == [name |-> n, targets |-> ts, valid |-> TRUE]
Doc(es)     == [exposures |-> es, valid |-> TRUE]

MCDocuments ==
    {Doc(<<Exp("a", <<Path("p")>>), Exp("b", <<Written("q", "unclean")>>)>>),
     Doc(<<Exp("a", <<Path("p"), Path("q")>>)>>),
     \* one path for two targets
     Doc(<<Exp("a", <<Path("p")>>), Exp("b", <<Written("p", "unclean")>>)>>),
     Doc(<<Exp("a", <<Path("p"), Path("p")>>)>>),
     \* names
     Doc(<<Exp("a", <<Path("p")>>), Exp("a", <<Path("q")>>)>>),
     Doc(<<Exp(BadName, <<Path("p")>>)>>), Doc(<<Exp(Blank, <<Path("p")>>)>>),
     \* targets that are no file
     Doc(<<Exp("a", <<Written("p", "relative")>>)>>),
     Doc(<<Exp("a", <<Written("p", "directory")>>)>>),
     \* anything missing or out of range
     Doc(<<>>), Doc(<<Exp("a", <<>>)>>),
     [Doc(<<Exp("a", <<Path("p")>>)>>) EXCEPT !.valid = FALSE],
     Doc(<<[Exp("a", <<Path("p")>>) EXCEPT !.valid = FALSE]>>)}

MCSelections ==
    {<<>>, <<Blank>>, <<"b">>, <<"b", "a">>, <<"a", Blank, "a">>, <<Blank, "b", "a">>,
     <<"a", BadName>>}
=============================================================================
