-------------------------------- MODULE Replay --------------------------------
(* One sender's frame indices at a receiver: the sliding replay window of     *)
(* crates/cfr-media/src/replay.rs and the forward-only epoch of the receive   *)
(* ratchet of ratchet.rs, which advance together when a frame is opened.      *)
EXTENDS Integers

CONSTANTS WINDOW,          \* width of the acceptance window, in frames
          EPOCH,           \* frames per ratchet epoch
          MAX_EPOCH_JUMP   \* largest forward epoch jump

ASSUME ReplayAssumption ==
    WINDOW \in Nat \ {0} /\ EPOCH \in Nat \ {0} /\ MAX_EPOCH_JUMP \in Nat

EpochOf(index) == index \div EPOCH

\* Bit k of `seen` stands for frame high - k; epoch is the ratchet's.
State == [started : BOOLEAN, high : Nat, seen : SUBSET (0..(WINDOW - 1)), epoch : Nat]

Fresh == [started |-> FALSE, high |-> 0, seen |-> {}, epoch |-> 0]

\* Faults: one place too few, or a word that does not drop its high bits.
ShiftedWide(seen, shift) == {k + shift : k \in seen}
ShiftedLess(seen, shift) == {k \in 0..(WINDOW - 1) : k - shift + 1 \in seen}

\* `seen << shift`, in a word of WINDOW bits.
Shifted(seen, shift) == {k \in 0..(WINDOW - 1) : k - shift \in seen}

\* Replay::accept would record index.
Fits(r, index) ==
    \/ ~r.started
    \/ index > r.high
    \/ r.high - index < WINDOW /\ r.high - index \notin r.seen

\* RecvRatchet::key has a key for index.
Reachable(r, index) ==
    EpochOf(index) >= r.epoch /\ EpochOf(index) - r.epoch <= MAX_EPOCH_JUMP

Accepts(r, index) == Fits(r, index) /\ Reachable(r, index)

\* Fault: the ratchet does not follow the window.
RecordWindow(r, index) ==
    IF ~r.started \/ index > r.high
    THEN [r EXCEPT !.started = TRUE, !.high = index,
           !.seen = {0} \cup (IF r.started THEN Shifted(@, index - r.high) ELSE {})]
    ELSE [r EXCEPT !.seen = @ \cup {r.high - index}]

\* The state Replay::accept and RecvRatchet::key leave behind.
Record(r, index) ==
    IF ~r.started \/ index > r.high
    THEN [started |-> TRUE, high |-> index, epoch |-> EpochOf(index),
          seen |-> {0} \cup (IF r.started THEN Shifted(r.seen, index - r.high) ELSE {})]
    ELSE [r EXCEPT !.seen = @ \cup {r.high - index}, !.epoch = EpochOf(index)]

-----------------------------------------------------------------------------
(* Reference: a receiver that remembers the set of indices it has opened.     *)

\* A frame is new, less than a window behind, not of an older epoch, and not too
\* far ahead.
Wanted(opened, index) ==
    /\ index \notin opened
    /\ \A i \in opened : i - index < WINDOW /\ EpochOf(index) >= EpochOf(i)
    /\ \E i \in opened \cup {0} : EpochOf(index) - EpochOf(i) <= MAX_EPOCH_JUMP
===============================================================================
