---------------------------- MODULE MCBodyStream ----------------------------
(* BodyStream on a handful of bodies: the model first, last, absent, repeated, next *)
(* to members an override replaces; an option given twice; and a text that is not   *)
(* JSON.                                                                            *)
EXTENDS BodyStream

Q(x) == <<"q">> \o x \o <<"q">>
KV(k, v) == Q(<<k>>) \o <<":">> \o Q(v)
Obj(ms) == <<"{">> \o ms \o <<"}">>
And(a, b) == a \o <<",">> \o b

ModelFirst == Obj(And(KV("m", <<"a">>), Q(<<"x">>) \o <<":", "0">>))
ModelLast == Obj(And(<<"SP">> \o KV("t", <<"a">>), KV("m", <<"a">>)))
TwoTiers == Obj(And(KV("t", <<>>), KV("t", <<>>)))
NoModel == Obj(<<"SP">>)
TwoTtls == Obj(Q(<<"p">>) \o <<":">> \o Obj(And(KV("a", <<>>), KV("a", <<>>))))
Broken == Obj(KV("m", <<"a">>) \o <<"SP", "q">>)

Case(body, kind, policy, hold, prefix) ==
  [body |-> body, kind |-> kind, policy |-> policy, sink |-> FALSE, hold |-> hold, prefix |-> prefix]
\* No policy: a sink, or neither.
Unpoliced(body, sink, prefix) == [Case(body, "openai", FALSE, FALSE, prefix) EXCEPT !.sink = sink]
MCCases ==
  {Case(b, "openai", TRUE, FALSE, 0) : b \in {ModelFirst, TwoTiers, Broken}}
    \union {Case(b, "anthropic", TRUE, FALSE, 0) : b \in {ModelLast, NoModel}}
    \union {Case(NoModel, "text", TRUE, FALSE, 0), Case(ModelFirst, "openai", TRUE, TRUE, 3),
            Case(ModelFirst, "openai", TRUE, FALSE, -1), Unpoliced(TwoTiers, FALSE, 0),
            Case(TwoTtls, "openai", TRUE, FALSE, 0), Unpoliced(TwoTtls, TRUE, 0), Unpoliced(TwoTtls, TRUE, -1)}

D(venue, model, sub, for, mem) == [venue |-> venue, model |-> model, sub |-> sub, for |-> for, mem |-> mem]
None == <<>>
MCDecisions ==
  {D(0, None, None, None, None),                                 \* as it is
   D(0, None, <<"b", "b">>, <<"a">>, None),                      \* a longer model for "a"
   D(1, None, <<"b">>, <<"a", "a">>, [t |-> <<"b">>]),           \* a tier, and a shorter model
   D(1, <<"b", "b">>, None, None, None),                         \* a model for any
   D(2, None, None, None, [t |-> <<"a">>])}                      \* a venue of another dialect
=============================================================================
