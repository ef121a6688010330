----------------------------- MODULE ZoneDraws -----------------------------
(***************************************************************************)
(* What callers of GetNavailabilityZones and getHAavailabilityZones are    *)
(* promised: an answer is chosen in one step, from the zones of the        *)
(* installation, and calls have nothing to do with each other.  When calls *)
(* have worked on the shared list at the same time, only the number and    *)
(* the names of default zones are.                                         *)
(***************************************************************************)
EXTENDS ZoneChoice, Sequences, Functions

CONSTANTS
  Caller,    \* the goroutines that serve requests
  Counts,    \* how many zones callers ask GetNavailabilityZones for
  FirstAZs,  \* the zones getHAavailabilityZones is called with
  NoZone     \* the empty string

VARIABLES
  asked,   \* [Caller -> the number of zones and the zone of the running master]
  answer,  \* [Caller -> the zones, none before the answer]
  calm     \* no call has overlapped one that works on the shared list

NotAsked == [n |-> 0, first |-> NoZone]

Questions == [n : Counts, first : {NoZone}] \cup [n : {3}, first : FirstAZs]

Init ==
  /\ asked = [c \in Caller |-> NotAsked]
  /\ answer = [c \in Caller |-> << >>]
  /\ calm = TRUE

Ask(c) ==
  /\ asked[c] = NotAsked
  /\ \E question \in Questions : asked' = [asked EXCEPT ![c] = question]
  /\ calm' => calm
  /\ UNCHANGED answer

Promised(question) ==
  IF question.first = NoZone THEN GetNavailabilityZones(question.n)
  ELSE GetHAavailabilityZones(question.first)

\* Whatever the calls do to each other, as many zones as were asked for, and
\* only zones of the installation, unless a second zone had to be looked for.
Possible(question, azs) ==
  question.first = NoZone => Len(azs) = question.n /\ Range(azs) \subseteq ValidAZs

Reply(c) ==
  LET azs == answer'[c] IN
  /\ asked[c] # NotAsked /\ answer[c] = << >>
  /\ azs # << >> /\ answer' = [answer EXCEPT ![c] = azs]
  /\ IF calm THEN azs \in Promised(asked[c]) ELSE Possible(asked[c], azs)
  /\ UNCHANGED <<asked, calm>>

Return(c) ==
  /\ answer[c] # << >>
  /\ asked' = [asked EXCEPT ![c] = NotAsked]
  /\ answer' = [answer EXCEPT ![c] = << >>]
  /\ UNCHANGED calm

Next == \E c \in Caller : Ask(c) \/ Reply(c) \/ Return(c)

Spec == Init /\ [][Next]_<<asked, answer, calm>>
=============================================================================
