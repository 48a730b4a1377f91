--------------------------- MODULE SerialDelivery ---------------------------
(***************************************************************************)
(* What a scope promises about queued deliveries, without the consumer,    *)
(* its cancellation, timers, the wake event or the stop protocol: accepted *)
(* deliveries stand in one line and begin one at a time in its order; one  *)
(* that is withdrawn from the line settles and never begins; each delivery *)
(* gets at most one final fact.                                            *)
(***************************************************************************)
EXTENDS Naturals, Sequences

CONSTANTS Deliveries, NoDelivery

VARIABLES line, current, fact

absVars == <<line, current, fact>>

Final == {"completed", "failed", "cancelled", "timeout"}

InLine == {line[i] : i \in DOMAIN line}

AbstractInit ==
    /\ line = <<>> /\ current = NoDelivery
    /\ fact = [d \in Deliveries |-> "unsent"]

Accept(d) ==
    /\ fact[d] = "unsent"
    /\ line' = Append(line, d)
    /\ fact' = [fact EXCEPT ![d] = "queued"]
    /\ UNCHANGED current

Refuse(d) ==
    /\ fact[d] = "unsent"
    /\ fact' = [fact EXCEPT ![d] = "rejected"]
    /\ UNCHANGED <<line, current>>

(* A direct delivery does not stand in line.                               *)
Bypass(d) ==
    /\ fact[d] = "unsent"
    /\ \E outcome \in Final : fact' = [fact EXCEPT ![d] = outcome]
    /\ UNCHANGED <<line, current>>

Begin ==
    /\ current = NoDelivery /\ line # <<>>
    /\ current' = Head(line)
    /\ line' = Tail(line)
    /\ fact' = [fact EXCEPT ![Head(line)] = "running"]

Settle ==
    /\ current # NoDelivery
    /\ \E outcome \in Final : fact' = [fact EXCEPT ![current] = outcome]
    /\ current' = NoDelivery
    /\ UNCHANGED line

(* What remains of the line when some leave it: nobody else leaves, nobody *)
(* comes in, and who stood before whom still does.                         *)
Remains(rest, S) ==
    /\ rest \in Seq(Deliveries)
    /\ {rest[i] : i \in DOMAIN rest} = InLine \ S
    /\ \A i, j \in DOMAIN rest : i < j =>
          \E k, l \in DOMAIN line : k < l /\ line[k] = rest[i] /\ line[l] = rest[j]

Withdraw(S) ==
    /\ S \subseteq InLine
    /\ Remains(line', S)
    /\ fact' = [d \in Deliveries |-> IF d \in S THEN "cancelled" ELSE fact[d]]
    /\ UNCHANGED current

AbstractNext ==
    \/ \E d \in Deliveries : Accept(d) \/ Refuse(d) \/ Bypass(d)
    \/ Begin \/ Settle
    \/ \E S \in SUBSET InLine : Withdraw(S)

Spec == AbstractInit /\ [][AbstractNext]_absVars
=============================================================================
