------------------------------- MODULE MCConfig -------------------------------
(* Every file of two blocks over the domains ex.com, Ex.com and a.ex.com,   *)
(* each with at most one sub, and a few that log.                           *)
EXTENDS Config

MCLower == [l \in {"ex", "Ex", "a", "b", "com", "*", ""} |-> IF l = "Ex" THEN "ex" ELSE l]

Ex == <<"ex", "com">>
Subs ==
    {[name |-> n, upstream |-> u, bypass |-> b] :
        n \in {<<"a">>, <<"b">>, <<"b", "a">>}, u \in {Unset, "two"}, b \in {Unset, {}}}
MCBlocks ==
    {[domain |-> d, upstream |-> u, bypass |-> {"/api"}, sub |-> s] :
        d \in {Ex, <<"Ex", "com">>, <<"a">> \o Ex}, u \in {"", "one"},
        s \in {<<>>} \cup {<<x>> : x \in Subs}}

Catchall == [upstream |-> "other", bypass |-> {"/"}]
NoLog(ss, c) == [sites |-> ss, catchall |-> c, log |-> Unset]

MCRawConfigs ==
    {NoLog(<<[s EXCEPT !.upstream = "one"], t>>, Unset) :
        s \in {x \in MCBlocks : x.sub = <<>> \/ x.domain = Ex}, t \in MCBlocks}
    \cup {NoLog(<<s>>, Catchall) : s \in MCBlocks}
    \cup {NoLog(<<[domain |-> Ex, upstream |-> "one", bypass |-> b, sub |-> <<>>]>>,
                [Catchall EXCEPT !.bypass = c]) : b \in {{}, Bad}, c \in {{}, Bad}}
    \cup {[sites |-> <<[domain |-> Ex, upstream |-> "one", bypass |-> {}, sub |-> <<>>]>>,
           catchall |-> Unset, log |-> [max |-> m]] : m \in {Unset, 0, 3}}

MCAsked == {<<"Ex", "com">>, <<"Ex", "com", "">>, <<"a">> \o Ex, <<"b">> \o Ex, <<"b", "a">> \o Ex,
            <<"com">>}
=============================================================================
