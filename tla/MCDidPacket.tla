----------------------------- MODULE MCDidPacket -----------------------------
(* Documents for TLC: every one or two methods with one simple service, and   *)
(* one method with every one or two services and all kinds of metadata.       *)
EXTENDS DidPacket

K0 == <<"0", "k0">>
K1 == <<"2", "k1">>
K2 == <<"2", "k2">>
AllTokens ==
    Marks \union {"2", "none", "bad", "nil", "", "k0", "k1", "k2", "k9", "b", "long", "d"}
AllKeys == {K0, K1, K2, <<"none", "k9">>, <<"bad", "k9">>, <<"nil", "">>}

p == Plain("p")
q == Plain("q")
Comma == [words |-> <<"p", "q">>, sep |-> ","]
Semicolon == [words |-> <<"p", "q">>, sep |-> ";"]
Equals == [words |-> <<"p", "q">>, sep |-> "="]
Texts == {p, Comma, Semicolon, Equals}

\* The texts "a", "a;b", "a=b", "0;b" and "a;k=k2", the last a field of its own.
A == Just(<<"a">>)
Cut(first) == <<<<<<first>>>>, <<<<"b">>>>>>
Halves == <<<<<<"a">>, <<"b">>>>>>
NewKey == <<<<<<"a">>>>, <<<<"k">>, <<"k2">>>>>>

MethodIds ==
    {<<"unset", Empty>>, <<"bare", A>>, <<"hash", A>>, <<"own", Just(<<"b">>)>>, <<"other", A>>,
     <<"hash", Just(<<"0">>)>>, <<"own", Thumbprint(K1)>>, <<"hash", Empty>>,
     <<"hash", Just(<<"other", "a">>)>>, <<"bare", Cut("a")>>, <<"hash", Halves>>,
     <<"bare", Cut("0")>>, <<"bare", Just(<<"long">>)>>}

MethodOf(id, type, key, alg, controller, purposes) ==
    [id |-> id, type |-> type, key |-> key, alg |-> alg, controller |-> controller,
     purposes |-> purposes]

Methods ==
    {MethodOf(id, "JsonWebKey", key, DefaultAlg(key), Empty, ps) :
        id \in MethodIds, key \in {K0, K1, K2}, ps \in {<<"auth">>, <<"agm", "inv">>}}
    \union {MethodOf(id, "JsonWebKey", key, DefaultAlg(key), Empty, <<>>) :
        id \in {<<"unset", Empty>>, <<"bare", A>>}, key \in AllKeys}
    \union {MethodOf(<<"bare", Just(<<"c">>)>>, "JsonWebKey", K1, alg, c, <<"del">>) :
        alg \in {Empty, Just(<<"other">>), Halves, NewKey},
        c \in {Just(<<"other">>), Self, Just(<<"long">>), NewKey}}
    \union {MethodOf(<<"bare", Just(<<"d">>)>>, "Multikey", K1, DefaultAlg(K1), Empty, <<>>),
            MethodOf(<<"bare", Just(<<"d">>)>>, "JsonWebKey", K1, DefaultAlg(K1), Empty,
                     <<"asm", "unknown">>)}

ServiceOf(id, type, endpoint, sig, enc) ==
    [id |-> id, type |-> type, endpoint |-> endpoint, sig |-> sig, enc |-> enc]

Endpoints == {<<>>} \union {<<t>> : t \in Texts} \union {<<q, t>> : t \in Texts}

Services ==
    {ServiceOf(id, type, e, <<>>, <<p>>) :
        id \in {<<"bare", q>>, <<"hash", q>>}, type \in {p, Comma, Equals}, e \in Endpoints}
    \union {ServiceOf(<<"bare", id>>, q, <<p>>, s, <<>>) :
        id \in {p, Semicolon}, s \in {<<p>>, <<p, q>>, <<Semicolon>>, <<EmptyText>>}}

PlainMethod == MethodOf(<<"bare", A>>, "JsonWebKey", K1, DefaultAlg(K1), Empty, <<"auth", "asm">>)
PlainService == ServiceOf(<<"bare", q>>, p, <<p>>, <<>>, <<>>)

Input(vms, services, controller, aka, gateways, types, previous) ==
    [vms |-> vms, services |-> services, controller |-> controller, aka |-> aka,
     gateways |-> gateways, types |-> types, previous |-> previous]

Documents ==
    {Input(vms, <<PlainService>>, <<>>, <<p>>, <<>>, <<>>, <<>>) : vms \in SeqOf(Methods, 2)}
    \union {Input(<<PlainMethod>>, ss, <<p>>, <<>>, <<>>, <<1>>, <<>>) : ss \in SeqOf(Services, 2)}
    \union {Input(<<PlainMethod>>, <<PlainService>>, c, a, g, t, v) :
        c \in {<<>>, <<p>>, <<p, Comma>>}, a \in {<<>>, <<Equals>>, <<p, q>>},
        g \in {<<>>, <<p>>, <<p, q>>, <<EmptyText>>}, t \in {<<>>, <<7>>, <<1, 2>>},
        v \in {<<>>, <<[did |-> "old", valid |-> TRUE]>>, <<[did |-> "old", valid |-> FALSE]>>}}

PackedOnly == {"packed"}
BothOrders == {"packed", "rootFirst"}

==============================================================================
