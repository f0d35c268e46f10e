--------------------------- MODULE MCBookingEngine ---------------------------
(***************************************************************************)
(* Instances of BookingEngine for TLC.  A run chooses how many requests of *)
(* each kind there are; the workloads below give them every combination of *)
(* parameters that makes them meet: the same user or another, the same     *)
(* slot, key or booking or another, ids of rows that do not exist.         *)
(***************************************************************************)
EXTENDS BookingClaims, RaceDemo, IntegrityCheck, TLC

CONSTANTS c1, c2, c3, p1, p2, f1, f2, alice, bob, nobody, s1, s2, s3, sX, a1, a2, aX,
          k1, k2, k3, g1, g2

\* s1 and s2 overlap, s3 leaves when s1 arrives; sX, aX and nobody have no row.
MCSchedules == {s1, s2, s3}
MCScheduleIds == MCSchedules \cup {sX}
MCUserIds == Users \cup {nobody}
MCSeats == {a1, a2}
MCSeatIds == MCSeats \cup {aX}
MCDeparts == (s1 :> 2) @@ (s2 :> 3) @@ (s3 :> 4)
MCArrives == (s1 :> 4) @@ (s2 :> 5) @@ (s3 :> 6)

\* Every assignment of a call to each request, drawn from the given sets.
Workload(creates, pays, refunds) ==
    {w \in [Requests -> UNION {creates[r] : r \in Creates} \cup pays \cup refunds] :
        /\ \A r \in Creates : w[r] \in creates[r]
        /\ \A r \in Pays : w[r] \in pays
        /\ \A r \in Refunds : w[r] \in refunds}

Call(u, s, a, k) == [user |-> u, schedule |-> s, seat |-> a, key |-> k]
Pay(u, b, k) == [user |-> u, booking |-> b, key |-> k]
Giveback(u, b) == [user |-> u, booking |-> b]

First == Call(alice, s1, a1, k1)

\* The first create is fixed; the others vary around it.
Around == {Call(u, s, a, k) : u \in {alice, bob}, s \in {s1, s2},
                              a \in {a1, a2}, k \in {k1, k2}}
          \cup {Call(bob, sX, a1, k3), Call(bob, s1, aX, k3), Call(alice, s3, a1, k3),
              Call(nobody, s1, a1, k3)}

RaceWorkloads ==
    Workload([r \in Creates |-> IF r = c1 THEN {First} ELSE Around], {}, {})

\* One booking, or two of different users, paid with equal or different keys.
PayWorkloads ==
    Workload([r \in Creates |-> IF r = c1 THEN {First} ELSE {Call(bob, s1, a2, k2)}],
             {Pay(alice, c1, g1), Pay(alice, c1, g2), Pay(bob, c1, g2)}
                \cup {Pay(bob, c, g1) : c \in Creates \ {c1}},
             {Giveback(alice, c1), Giveback(bob, c1)})

\* The two payments are interchangeable: PayWorkloads and the properties are too.
PaySymmetry == Permutations(Pays)

\* Two creates that want the same slot, or the second one a slot that does not exist,
\* payment and refund of the first.
SlotWorkloads ==
    Workload([r \in Creates |-> IF r = c1 THEN {First} ELSE
                {Call(bob, s1, a1, k2), Call(bob, sX, a1, k2), Call(bob, s1, aX, k2)}],
             {Pay(alice, c1, g1), Pay(bob, c2, g2)}, {Giveback(alice, c1)})
==============================================================================
