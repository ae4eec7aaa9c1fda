------------------------------ MODULE MCTransfer -------------------------------
(* Transfer on small instances: one message of every kind and one beyond each *)
(* limit; frames of one and two units for every codec.                        *)
EXTENDS Transfer

A == <<1>>
B == <<2>>
C == <<3>>
SigOf(p) == <<p[1], 2>>

Signed(author, deps, body) == [sid |-> A, author |-> author, deps |-> deps, body |-> body, sig |-> SigOf(author)]
Share(to, establish) == [to |-> to, establish |-> establish, seq |-> 1, ct |-> <<2, 1>>]
Contribution(parents, recips, slices) ==
    [kind |-> K_CONTRIB, cid |-> C, cparents |-> parents, recips |-> recips, slices |-> slices, view |-> B]

Bodies ==
    {[kind |-> K_ADD, who |-> B], [kind |-> K_REMOVE, who |-> B], [kind |-> K_PREKEYS, gen |-> 3, pk |-> B],
     Contribution({A, B}, <<B>>, <<Share(B, <<1, C>>), Share(B, <<>>)>>),
     Contribution({}, <<B, A, C>>, <<>>),
     [kind |-> K_ACCUSE, who |-> B, coid |-> A, mk |-> C, seq |-> 0],
     [kind |-> K_PKREQ, targets |-> <<B, A>>], [kind |-> K_PKREQ, targets |-> <<A, B, C>>]}
Ops == {Signed(A, {B, C}, body) : body \in Bodies} \cup {Signed(B, {A, B, C}, [kind |-> K_ADD, who |-> A])}

Small == Signed(B, {}, [kind |-> K_REMOVE, who |-> A])
Sealed == [eph |-> B, gen |-> 2, ct |-> <<1, 3>>]
Record == [protocol |-> PROTOCOL_ID, previous |-> A, context |-> B, frontier |-> {A, C}, root |-> C,
           epoch |-> 2, next |-> B, profile |-> 1, capabilities |-> 7]
Certificate(signers) == [record |-> Record, approvals |-> {<<p, SigOf(p)>> : p \in signers}]

MCMessages ==
    {[tag |-> M_OP, op |-> op] : op \in Ops}
      \cup {[tag |-> M_WELCOME, sid |-> A, from |-> B, sealed |-> Sealed, history |-> <<Small>>, pruned |-> {A}]}
      \cup {[tag |-> M_SYNC, from |-> A, heads |-> heads] : heads \in SUBSET {A, B, C}}
      \cup {[tag |-> M_DELIVER, history |-> h, pruned |-> {}] : h \in {<<>>, <<Small, Small>>, <<Small, Small, Small>>}}
      \cup {[tag |-> M_NKREQ, from |-> A, nodes |-> {A, C}], [tag |-> M_NKRESP, from |-> C, sealed |-> Sealed],
            [tag |-> 0, ipk |-> A, gen |-> 1, prekey |-> B, sig |-> SigOf(A)]}
      \cup {[tag |-> M_CHECKPOINT, certificate |-> Certificate(s)] : s \in {{A}, {A, B}, {A, B, C}}}

-----------------------------------------------------------------------------
\* All sequences over S of at most n elements.
Strings(S, n) == UNION {[1..k -> S] : k \in 0..n}

\* One unit behind a start code, or behind its length.
AnnexB(S) == {c \o b : c \in {<<0, 0, 1>>, <<0, 0, 0, 1>>}, b \in Strings(S, 3)}
Prefixed(S) == {<<0, 0, 0, Len(b)>> \o b : b \in Strings(S, 3) \ Strings(S, 1)}
Two(units) == {u \o v : u, v \in units}

MCFrames(codec) ==
    CASE codec \in {"H264", "H265"} ->
           Strings({0, 1}, 4) \cup AnnexB({0, 1, 2}) \cup Prefixed({0, 1, 2})
             \cup Two(AnnexB({2})) \cup Two(Prefixed({2}))
      [] codec = "Av1" -> Strings({0, 1, 2, 6, 128}, 3) \cup {<<2, 1, 0>> \o s : s \in Strings({0, 1, 2, 129}, 2)}
      [] codec = "Vp8" -> {<<b>> \o [i \in 1..n |-> 0] : b \in {0, 1}, n \in {1, 2, 3, 9, 10}}
      [] OTHER -> Strings({0, 1}, 3)

MCCipher(codec) == IF codec \in {"H264", "H265", "Av1"} THEN {0, 1, 2} ELSE {0, 1}
===============================================================================
