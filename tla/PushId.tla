-------------------------------- MODULE PushId --------------------------------
(***************************************************************************)
(* The keys of new children (FNextPushId.get, behind childByAutoId), as    *)
(* pure operators: the time in milliseconds, most significant digit first, *)
(* then random digits.  Within one millisecond the random digits of the    *)
(* last key are counted up instead of drawn again, so that the keys of one *)
(* process sort in the order in which they were asked for.                 *)
(*                                                                         *)
(* The state between calls, lastPushTime and lastRandChars, is a record    *)
(* [time, rand]; a call is a record [now, drawn], the clock and what       *)
(* arc4random would yield.                                                 *)
(***************************************************************************)
EXTENDS Integers, Sequences, FiniteSetsExt

CONSTANTS
    Base,       \* the number of PUSH_CHARS, 64
    TimeChars,  \* 8
    RandChars   \* 12

ASSUME PushIdAssumption ==
    Base \in Nat \ {0} /\ TimeChars \in Nat \ {0} /\ RandChars \in Nat \ {0}

Digits == 0 .. Base - 1
Rands == [1 .. RandChars -> Digits]
PushStates == [time : Nat, rand : Rands]

\* The static variables of a process that has asked for no key yet.
FirstPush == [time |-> 0, rand |-> [i \in 1 .. RandChars |-> 0]]

\* What is left of the time after each round of the loop over timeStampChars.
Rest(now) ==
    LET rest[k \in 0 .. TimeChars] == IF k = 0 THEN now ELSE rest[k - 1] \div Base
    IN  rest

\* The digits, the least significant one from the first round; what is left at the
\* end is dropped.
TimeStamp(now) == [i \in 1 .. TimeChars |-> Rest(now)[TimeChars - i] % Base]

\* Where the loop that looks for a digit to count up stops: 0 is off the end.
CarryStop(r) == Max({0} \cup {i \in 1 .. RandChars : r[i] # Base - 1})

\* The digits behind are reset.  When all are at their maximum the code counts
\* up lastRandChars[-1], another variable's memory, and the digits start again.
Increment(r) ==
    [i \in 1 .. RandChars |->
        IF i > CarryStop(r) THEN 0
        ELSE IF i = CarryStop(r) THEN r[i] + 1 ELSE r[i]]

\* Broken variant: the random digits are drawn for every key.
GetDraws(s, call) == [time |-> call.now, rand |-> call.drawn]

\* FNextPushId.get: the state after it; its key follows from that.
Get(s, call) ==
    [time |-> call.now,
     rand |-> IF call.now = s.time THEN Increment(s.rand) ELSE call.drawn]

Key(s) == TimeStamp(s.time) \o s.rand

\* The states after each of the calls.
States(calls) ==
    LET after[i \in 0 .. Len(calls)] ==
            IF i = 0 THEN FirstPush ELSE Get(after[i - 1], calls[i])
    IN  [i \in 1 .. Len(calls) |-> after[i]]

Earlier(a, b) ==
    \E i \in DOMAIN a : a[i] < b[i] /\ \A j \in 1 .. i - 1 : a[j] = b[j]

\* The latest time that fits, all of its digits at their maximum.
LastTime ==
    LET last[k \in 0 .. TimeChars] == IF k = 0 THEN 0 ELSE last[k - 1] * Base + Base - 1
    IN  last[TimeChars]

PushCalls == [now : 1 .. LastTime, drawn : Rands]

\* The calls a process may make while the clock does not go back.
CallSequences(n) ==
    {c \in [1 .. n -> PushCalls] :
        \A i \in 1 .. n - 1 : c[i].now <= c[i + 1].now}

\* No key of the calls was asked for when every digit was at its maximum.
NoOverrun(calls, states) ==
    \A i \in 2 .. Len(calls) :
        calls[i].now = states[i - 1].time => CarryStop(states[i - 1].rand) # 0

\* Keys come in ascending order and never twice, whether or not the clock moves
\* between two messages, as long as the digits of one millisecond last: this is
\* what makes a conversation show in the order of sending (FNextPushId.get).
KeysAscend(n) ==
    \A calls \in CallSequences(n) :
        LET states == States(calls)
        IN  NoOverrun(calls, states) =>
                \A i \in 1 .. n - 1 : Earlier(Key(states[i]), Key(states[i + 1]))
=============================================================================
