-------------------------- MODULE AlertEvaluationProofs --------------------------
(***************************************************************************)
(* Proofs about AlertEvaluation, for every set of subjects and approvers,  *)
(* every number of workers, and all bounds: a mail of one event reaches a  *)
(* recipient twice only where a fault kept its sending from the journal;   *)
(* reminders are about a request that was pending, to someone who was an   *)
(* approver; an invitation is due when its alert is fired.                 *)
(***************************************************************************)
EXTENDS AlertEvaluation, FiniteSetTheorems, TLAPS

\* A run that holds an attempt of a delivery.
Busy == {"check", "send", "record"}

\* Approvals are reminded of and escalated, all else is alerted.
Fitting(key) == kind[key.of] = "aging" <=> key.stage # "alert"

\* A breach a run may go by: it is delivered to the recipients of its stage, and
\* that of an invitation names the invitation it was found for.
Sound(it) ==
  /\ \A r \in it.to : <<it.key, r>> \in Streams
  /\ Fitting(it.key)
  /\ kind[it.key.of] = "invite" => it.gen = it.key.mark

\* A condition begins again by a change only, and an approval never does.
CondInv ==
  \A s \in Subjects : cond[s].gen <= changes /\ (kind[s] = "aging" => cond[s].gen = 0)

\* What a run has read is sound, and its attempt is one of the journal's.
RunInv(w) ==
  /\ \A it \in run[w].todo : Sound(it)
  /\ run[w].pc \in Busy \cup {"claim"} =>
       /\ run[w].item \in Items /\ Fitting(run[w].item.key)
       /\ \A r \in run[w].rest : <<run[w].item.key, r>> \in Streams
  /\ run[w].pc \in Busy =>
       /\ Stream(w) \in Streams
       /\ run[w].attempt \in 1..Len(journal[Stream(w)])

ItemInv == \A w \in Workers : RunInv(w)

\* No two runs hold the same attempt of a delivery.
OwnInv ==
  \A v, w \in Workers :
    v # w /\ run[v].pc \in Busy /\ run[w].pc \in Busy /\ Stream(v) = Stream(w)
      => run[v].attempt # run[w].attempt

\* Nothing is claimed behind a success.
ClaimInv ==
  \A x \in Streams : \A n \in 1..Len(journal[x]) :
    journal[x][n].end = "succeeded" => n = Len(journal[x])

\* The runs that sent the mail of a delivery and have not recorded it.
Recording(x) == {w \in Workers : run[w].pc = "record" /\ Stream(w) = x}

Credit(x) == IF Succeeded(x) THEN 1 ELSE 0

\* Every mail is on its way to the journal, is known to be missing there, or is
\* the one success of its delivery.
MailInv ==
  \A x \in Streams : mails[x] <= unrecorded[x] + Cardinality(Recording(x)) + Credit(x)

\* Reminders and escalations are sent after their check only.
ValidRun(w) ==
  /\ run[w].pc = "check" => run[w].item.key.stage # "alert"
  /\ run[w].pc \in {"send", "record"} /\ run[w].item.key.stage # "alert" =>
       run[w].valid = {"recipient", "breach"}

ValidInv == \A w \in Workers : ValidRun(w)

IInv == TypeOK /\ CondInv /\ ItemInv /\ OwnInv /\ ClaimInv /\ MailInv /\ ValidInv

-------------------------------------------------------------------------------
(* What a run finds                                                        *)

LEMMA MarksFit == 0 \in Marks /\ 0..MaxChanges \subseteq Marks /\ 0..MaxWindow \subseteq Marks
BY AlertAssumption DEF Marks

LEMMA ItemsSound ==
  ASSUME TypeOK, CondInv, NEW s \in Subjects, NEW win \in 0..MaxWindow,
         NEW it \in ItemsOf(s, win)
  PROVE  it \in Items /\ Sound(it) /\ it.key.of = s
<1>1. PICK g \in StagesOf(s) :
        it = [key |-> [of |-> s, mark |-> Mark(s, win), stage |-> g], gen |-> cond[s].gen,
              to |-> RecipientsOf(s, g)]
  BY DEF ItemsOf
<1>2. /\ cond[s] \in [on : BOOLEAN, gen : 0..MaxChanges, age : 0..2]
      /\ kind[s] \in Kinds
  BY AlertAssumption DEF TypeOK
<1>3. Mark(s, win) \in Marks /\ (kind[s] = "aging" => Mark(s, win) = 0)
      /\ (kind[s] = "invite" => Mark(s, win) = cond[s].gen)
  BY <1>2, MarksFit DEF Mark, CondInv, Kinds
<1>4. g \in Stages /\ (kind[s] = "aging" <=> g # "alert")
  BY DEF StagesOf, Stages
<1>5. it.key \in Keys
  BY <1>1, <1>3, <1>4 DEF Keys
<1>6. RecipientsOf(s, g) \subseteq Recipients
      /\ \A r \in RecipientsOf(s, g) : <<it.key, r>> \in Streams
  <2>1. it.key.stage = g
    BY <1>1
  <2>2. CASE g = "reminder"
    BY <1>5, <2>1, <2>2 DEF RecipientsOf, Recipients, Streams, TypeOK
  <2>3. CASE g = "escalation"
    BY <1>5, <2>1, <2>3 DEF RecipientsOf, Recipients, Streams
  <2>4. CASE g = "alert"
    BY <1>5, <2>1, <2>4 DEF RecipientsOf, Recipients, Streams
  <2> QED
    BY <1>4, <2>2, <2>3, <2>4 DEF Stages
<1> QED
  BY <1>1, <1>2, <1>3, <1>4, <1>5, <1>6 DEF Items, Sound, Fitting

-------------------------------------------------------------------------------
(* The journal                                                             *)

LEMMA JournalTyped ==
  ASSUME TypeOK, NEW x \in Streams
  PROVE  /\ journal[x] \in Seq(Claims) /\ Len(journal[x]) \in Nat
         /\ DOMAIN journal[x] = 1..Len(journal[x])
         /\ \A n \in 1..Len(journal[x]) : journal[x][n] \in Claims
<1>1. journal[x] \in Seq(Claims)
  BY DEF TypeOK
<1> QED
  BY <1>1

\* A claim of the journal is overwritten with another.
LEMMA JournalEdit ==
  ASSUME NEW J \in [Streams -> Seq(Claims)], NEW x \in Streams,
         NEW n \in 1..Len(J[x]), NEW c \in Claims,
         NEW K, K = [J EXCEPT ![x] = [J[x] EXCEPT ![n] = c]]
  PROVE  /\ K \in [Streams -> Seq(Claims)]
         /\ \A y \in Streams : Len(K[y]) = Len(J[y])
         /\ \A y \in Streams : y # x => K[y] = J[y]
         /\ \A m \in 1..Len(J[x]) : K[x][m] = IF m = n THEN c ELSE J[x][m]
<1>1. /\ [J[x] EXCEPT ![n] = c] \in Seq(Claims)
      /\ Len([J[x] EXCEPT ![n] = c]) = Len(J[x])
      /\ \A m \in 1..Len(J[x]) :
           [J[x] EXCEPT ![n] = c][m] = IF m = n THEN c ELSE J[x][m]
  OBVIOUS
<1>2. K[x] = [J[x] EXCEPT ![n] = c]
  OBVIOUS
<1> QED
  BY <1>1, <1>2

\* The fence lets the latest attempt end, once: nothing has succeeded before it.
LEMMA FenceHolds ==
  ASSUME TypeOK, ClaimInv, NEW w \in Workers, RunInv(w), run[w].pc \in Busy, Fence(w)
  PROVE  /\ run[w].attempt = Len(journal[Stream(w)])
         /\ journal[Stream(w)][run[w].attempt].end = "open"
         /\ ~Succeeded(Stream(w))
<1>1. Stream(w) \in Streams /\ run[w].attempt \in 1..Len(journal[Stream(w)])
  BY DEF RunInv
<1>2. /\ run[w].attempt = Len(journal[Stream(w)])
      /\ journal[Stream(w)][run[w].attempt].end = "open"
  BY DEF Fence
<1> QED
  BY <1>1, <1>2, JournalTyped DEF ClaimInv, Succeeded

LEMMA EndStep ==
  ASSUME TypeOK, ClaimInv, NEW w \in Workers, RunInv(w), run[w].pc \in Busy,
         NEW e \in {"failed", "succeeded"}, End(w, e),
         NEW x, x = Stream(w), NEW n, n = run[w].attempt
  PROVE  /\ journal' \in [Streams -> Seq(Claims)]
         /\ \A y \in Streams : Len(journal'[y]) = Len(journal[y])
         /\ ClaimInv'
         /\ \A y \in Streams : y # x => (Succeeded(y)' <=> Succeeded(y))
         /\ Succeeded(x)' <=> Succeeded(x) \/ (Fence(w) /\ e = "succeeded")
<1>1. x \in Streams /\ n \in 1..Len(journal[x])
  BY DEF RunInv
<1>2. CASE ~Fence(w)
  <2>1. journal' = journal
    BY <1>2 DEF End
  <2> QED
    BY <2>1, <1>2 DEF ClaimInv, Succeeded, TypeOK
<1>3. CASE Fence(w)
  <2>1. journal[x][n] \in Claims /\ journal[x] \in Seq(Claims) /\ Len(journal[x]) \in Nat
    BY <1>1, JournalTyped
  <2>2. PICK c : c = [journal[x][n] EXCEPT !.end = e]
    OBVIOUS
  <2>3. c \in Claims /\ c.end = e
    BY <2>1, <2>2 DEF Claims
  <2>4. journal' = [journal EXCEPT ![x] = [journal[x] EXCEPT ![n] = c]]
    BY <1>1, <1>3, <2>1, <2>2 DEF End, TypeOK
  <2>5. /\ journal' \in [Streams -> Seq(Claims)]
        /\ \A y \in Streams : Len(journal'[y]) = Len(journal[y])
        /\ \A y \in Streams : y # x => journal'[y] = journal[y]
        /\ \A m \in 1..Len(journal[x]) : journal'[x][m] = IF m = n THEN c ELSE journal[x][m]
    BY <1>1, <2>3, <2>4, JournalEdit DEF TypeOK
  <2>6. n = Len(journal[x]) /\ ~Succeeded(x)
    BY <1>3, FenceHolds
  <2>7. DOMAIN journal[x] = 1..Len(journal[x]) /\ DOMAIN journal'[x] = 1..Len(journal[x])
    BY <1>1, <2>1, <2>5
  <2>8. Succeeded(x)' <=> e = "succeeded"
    BY <1>1, <2>3, <2>5, <2>6, <2>7 DEF Succeeded
  <2>9. \A y \in Streams : y # x => (Succeeded(y)' <=> Succeeded(y))
    BY <2>5 DEF Succeeded
  <2>10. ClaimInv'
    BY <1>1, <2>3, <2>5, <2>6, <2>7 DEF ClaimInv
  <2> QED
    BY <1>3, <2>5, <2>6, <2>8, <2>9, <2>10
<1> QED
  BY <1>2, <1>3

LEMMA ClaimAppended ==
  \A q \in Seq(Claims), c \in Claims :
    /\ Append(q, c) \in Seq(Claims) /\ Len(Append(q, c)) = Len(q) + 1
    /\ DOMAIN Append(q, c) = 1..(Len(q) + 1)
    /\ \A n \in 1..Len(q) : Append(q, c)[n] = q[n]
    /\ Append(q, c)[Len(q) + 1] = c
OBVIOUS

\* A new claim is the latest of its delivery.
LEMMA ClaimStep ==
  ASSUME TypeOK, ClaimInv, NEW x \in Streams, ~Succeeded(x),
         journal' = [journal EXCEPT ![x] = Append(@, [live |-> TRUE, end |-> "open"])]
  PROVE  /\ journal' \in [Streams -> Seq(Claims)]
         /\ Len(journal'[x]) = Len(journal[x]) + 1
         /\ \A y \in Streams : y # x => journal'[y] = journal[y]
         /\ ClaimInv'
         /\ \A y \in Streams : Succeeded(y)' <=> Succeeded(y)
<1>0. PICK c : c = [live |-> TRUE, end |-> "open"]
  OBVIOUS
<1>1. c \in Claims /\ c.end = "open"
  BY <1>0 DEF Claims
<1>2. journal[x] \in Seq(Claims) /\ Len(journal[x]) \in Nat
      /\ DOMAIN journal[x] = 1..Len(journal[x])
  BY JournalTyped
<1>3. journal'[x] = Append(journal[x], c) /\ \A y \in Streams : y # x => journal'[y] = journal[y]
  BY <1>0 DEF TypeOK
<1>4. /\ journal'[x] \in Seq(Claims) /\ Len(journal'[x]) = Len(journal[x]) + 1
      /\ \A n \in 1..Len(journal[x]) : journal'[x][n] = journal[x][n]
      /\ journal'[x][Len(journal[x]) + 1] = c
      /\ DOMAIN journal'[x] = 1..(Len(journal[x]) + 1)
  <2>1. PICK q : q = journal[x]
    OBVIOUS
  <2>2. q \in Seq(Claims) /\ journal'[x] = Append(q, c)
    BY <1>2, <1>3, <2>1
  <2>3. /\ Append(q, c) \in Seq(Claims) /\ Len(Append(q, c)) = Len(q) + 1
        /\ DOMAIN Append(q, c) = 1..(Len(q) + 1)
        /\ \A n \in 1..Len(q) : Append(q, c)[n] = q[n]
        /\ Append(q, c)[Len(q) + 1] = c
    BY <1>1, <2>2, ClaimAppended, Zenon
  <2> QED
    BY <2>1, <2>2, <2>3
<1>5. journal' \in [Streams -> Seq(Claims)]
  BY <1>3, <1>4 DEF TypeOK
<1>6. ~Succeeded(x)'
  <2>1. SUFFICES ASSUME NEW n \in 1..(Len(journal[x]) + 1), journal'[x][n].end = "succeeded"
                 PROVE  FALSE
    BY <1>4 DEF Succeeded
  <2>2. n # Len(journal[x]) + 1
    BY <1>1, <1>4, <2>1
  <2>3. n \in 1..Len(journal[x])
    BY <1>2, <2>2
  <2> QED
    BY <1>2, <1>4, <2>1, <2>3 DEF Succeeded
<1>7. \A y \in Streams : Succeeded(y)' <=> Succeeded(y)
  BY <1>3, <1>6 DEF Succeeded
<1>8. ClaimInv'
  <2>1. SUFFICES ASSUME NEW y \in Streams, NEW n \in 1..Len(journal'[y]),
                        journal'[y][n].end = "succeeded"
                 PROVE  n = Len(journal'[y])
    BY DEF ClaimInv
  <2>2. CASE y = x
    BY <1>4, <1>6, <2>1, <2>2 DEF Succeeded
  <2> QED
    BY <1>3, <2>1, <2>2 DEF ClaimInv
<1> QED
  BY <1>3, <1>4, <1>5, <1>7, <1>8

\* A lease that ends changes what runs may claim, and nothing that is recorded.
LEMMA LeaseStep ==
  ASSUME TypeOK, ClaimInv, NEW x \in Streams, LeaseEnds(x)
  PROVE  /\ journal' \in [Streams -> Seq(Claims)] /\ ClaimInv' /\ faults' \in 0..MaxFaults
         /\ \A y \in Streams : Len(journal'[y]) = Len(journal[y])
         /\ \A y \in Streams : Succeeded(y)' <=> Succeeded(y)
<1>1. journal[x] \in Seq(Claims) /\ Len(journal[x]) \in Nat
      /\ DOMAIN journal[x] = 1..Len(journal[x])
  BY JournalTyped
<1>2. PICK n : n = Len(journal[x])
  OBVIOUS
<1>3. n \in 1..Len(journal[x])
  BY <1>1, <1>2 DEF LeaseEnds
<1>4. journal[x][n] \in Claims /\ journal[x][n].end = "open"
  BY <1>1, <1>2, <1>3 DEF LeaseEnds
<1>5. PICK c : c = [journal[x][n] EXCEPT !.live = FALSE]
  OBVIOUS
<1>6. c \in Claims /\ c.end = "open"
  BY <1>4, <1>5 DEF Claims
<1>7. journal' = [journal EXCEPT ![x] = [journal[x] EXCEPT ![n] = c]]
  BY <1>1, <1>2, <1>3, <1>5 DEF LeaseEnds, TypeOK
<1>8. /\ journal' \in [Streams -> Seq(Claims)]
      /\ \A y \in Streams : Len(journal'[y]) = Len(journal[y])
      /\ \A y \in Streams : y # x => journal'[y] = journal[y]
      /\ \A m \in 1..Len(journal[x]) : journal'[x][m] = IF m = n THEN c ELSE journal[x][m]
  BY <1>3, <1>6, <1>7, JournalEdit DEF TypeOK
<1>9. DOMAIN journal'[x] = 1..Len(journal[x])
  BY <1>1, <1>8
<1>10. \A y \in Streams : Succeeded(y)' <=> Succeeded(y)
  <2>1. Succeeded(x)' <=> Succeeded(x)
    BY <1>1, <1>3, <1>4, <1>6, <1>8, <1>9 DEF Succeeded
  <2> QED
    BY <1>8, <2>1 DEF Succeeded
<1>11. ClaimInv'
  BY <1>1, <1>4, <1>6, <1>8, <1>9 DEF ClaimInv
<1>12. faults' \in 0..MaxFaults
  BY AlertAssumption DEF LeaseEnds, TypeOK
<1> QED
  BY <1>8, <1>10, <1>11, <1>12

-------------------------------------------------------------------------------
(* One run among others                                                    *)

LEMMA SetRun ==
  ASSUME TypeOK, NEW w \in Workers, NEW r \in Runs, Set(w, r)
  PROVE  /\ run' \in [Workers -> Runs] /\ run'[w] = r
         /\ \A v \in Workers : v # w => run'[v] = run[v]
BY DEF Set, TypeOK

LEMMA IdleRun == Idle \in Runs /\ Idle.pc = "idle" /\ Idle.todo = {}
BY DEF Idle, Runs, NoItem

LEMMA RunTyped ==
  ASSUME TypeOK, NEW w \in Workers
  PROVE  run[w] \in Runs
BY DEF TypeOK

\* What a step of one run leaves true of all.
LEMMA RunsKept ==
  ASSUME TypeOK, ItemInv, OwnInv, ValidInv, NEW w \in Workers,
         \A v \in Workers : v # w => run'[v] = run[v],
         kind' = kind, journal' \in [Streams -> Seq(Claims)],
         \A x \in Streams : Len(journal[x]) <= Len(journal'[x]),
         RunInv(w)', ValidRun(w)',
         \A v \in Workers : v # w /\ run[v].pc \in Busy /\ run'[w].pc \in Busy
                              /\ Stream(v) = Stream(w)'
                              => run[v].attempt # run'[w].attempt
  PROVE  ItemInv' /\ OwnInv' /\ ValidInv'
<1>1. \A v \in Workers : v # w => RunInv(v)'
  <2>1. SUFFICES ASSUME NEW v \in Workers, v # w PROVE RunInv(v)'
    OBVIOUS
  <2>2. RunInv(v) /\ run'[v] = run[v]
    BY <2>1 DEF ItemInv
  <2>3. Stream(v) \in Streams => Len(journal[Stream(v)]) \in Nat /\ Len(journal'[Stream(v)]) \in Nat
    BY DEF TypeOK
  <2> QED
    BY <2>2, <2>3 DEF RunInv, Stream, Sound, Fitting
<1>2. \A v \in Workers : v # w => ValidRun(v)'
  BY DEF ValidInv, ValidRun
<1>3. OwnInv'
  <2>1. SUFFICES ASSUME NEW u \in Workers, NEW v \in Workers, u # v,
                        run'[u].pc \in Busy, run'[v].pc \in Busy, Stream(u)' = Stream(v)'
                 PROVE  run'[u].attempt # run'[v].attempt
    BY DEF OwnInv
  <2>2. CASE u = w
    BY <2>1, <2>2 DEF Stream
  <2>3. CASE v = w
    BY <2>1, <2>3 DEF Stream
  <2>4. CASE u # w /\ v # w
    BY <2>1, <2>4 DEF Stream, OwnInv
  <2> QED
    BY <2>2, <2>3, <2>4
<1> QED
  BY <1>1, <1>2, <1>3 DEF ItemInv, ValidInv

LEMMA RecordingChanges ==
  ASSUME TypeOK, NEW w \in Workers, NEW x,
         \A v \in Workers : v # w => run'[v] = run[v]
  PROVE  /\ Cardinality(Recording(x)) \in Nat /\ Cardinality(Recording(x))' \in Nat
         /\ (w \in Recording(x) <=> w \in Recording(x)') =>
              Cardinality(Recording(x))' = Cardinality(Recording(x))
         /\ w \notin Recording(x) /\ w \in Recording(x)' =>
              Cardinality(Recording(x))' = Cardinality(Recording(x)) + 1
         /\ w \in Recording(x) /\ w \notin Recording(x)' =>
              Cardinality(Recording(x))' = Cardinality(Recording(x)) - 1
<1>1. IsFiniteSet(Recording(x)) /\ IsFiniteSet(Recording(x)')
  <2>1. Recording(x) \subseteq Workers /\ Recording(x)' \subseteq Workers
    BY DEF Recording
  <2> QED
    BY <2>1, AlertAssumption, FS_Subset
<1>2. \A v \in Workers : v # w => (v \in Recording(x) <=> v \in Recording(x)')
  BY DEF Recording, Stream
<1>3. \A v : v \in Recording(x) \/ v \in Recording(x)' => v \in Workers
  BY DEF Recording
<1>4. Cardinality(Recording(x)) \in Nat /\ Cardinality(Recording(x)') \in Nat
  BY <1>1, FS_CardinalityType
<1>5. ASSUME w \in Recording(x) <=> w \in Recording(x)' PROVE Recording(x)' = Recording(x)
  BY <1>2, <1>3, <1>5
<1>6. ASSUME w \notin Recording(x), w \in Recording(x)'
      PROVE  Cardinality(Recording(x)') = Cardinality(Recording(x)) + 1
  <2>1. Recording(x)' = Recording(x) \cup {w}
    BY <1>2, <1>3, <1>6
  <2> QED
    BY <1>1, <1>6, <2>1, FS_AddElement
<1>7. ASSUME w \in Recording(x), w \notin Recording(x)'
      PROVE  Cardinality(Recording(x)') = Cardinality(Recording(x)) - 1
  <2>1. Recording(x)' = Recording(x) \ {w}
    BY <1>2, <1>3, <1>7
  <2> QED
    BY <1>1, <1>7, <2>1, FS_RemoveElement
<1> QED
  BY <1>4, <1>5, <1>6, <1>7

LEMMA MailKept ==
  ASSUME TypeOK, MailInv, NEW w \in Workers,
         \A v \in Workers : v # w => run'[v] = run[v],
         UNCHANGED <<mails, unrecorded>>,
         run[w].pc # "record", run'[w].pc # "record",
         \A x \in Streams : Succeeded(x) => Succeeded(x)'
  PROVE  MailInv'
<1>1. SUFFICES ASSUME NEW x \in Streams
               PROVE  (mails[x] <= unrecorded[x] + Cardinality(Recording(x)) + Credit(x))'
  BY DEF MailInv
<1>2. w \notin Recording(x) /\ w \notin Recording(x)'
  BY DEF Recording
<1>3. /\ Cardinality(Recording(x)) \in Nat
      /\ Cardinality(Recording(x))' = Cardinality(Recording(x))
  BY <1>2, RecordingChanges
<1>4. Credit(x) <= Credit(x)' /\ Credit(x) \in Nat /\ Credit(x)' \in Nat
  BY DEF Credit
<1>5. mails[x] \in Nat /\ unrecorded[x] \in Nat
      /\ mails[x] <= unrecorded[x] + Cardinality(Recording(x)) + Credit(x)
  BY DEF TypeOK, MailInv
<1> QED
  BY <1>3, <1>4, <1>5

\* A run that is idle, or between two breaches, holds nothing.
LEMMA RunRests ==
  ASSUME NEW w \in Workers, run'[w].pc \in {"idle", "next"},
         \A it \in run'[w].todo : Sound(it)'
  PROVE  RunInv(w)' /\ ValidRun(w)' /\ run'[w].pc \notin Busy
BY DEF RunInv, ValidRun, Busy

-------------------------------------------------------------------------------
(* Reading and opening                                                     *)

LEMMA BeginKeeps ==
  ASSUME IInv, NEW w \in Workers, run[w].pc = "idle",
         NEW r \in Runs, r.pc = "next", \A it \in r.todo : Sound(it), Set(w, r),
         UNCHANGED <<world, events, streams, journal, mails, unrecorded, changes, faults>>
  PROVE  IInv'
<1> USE DEF IInv, world
<1>1. run' \in [Workers -> Runs] /\ run'[w] = r /\ \A v \in Workers : v # w => run'[v] = run[v]
  BY SetRun
<1>2. RunInv(w)' /\ ValidRun(w)' /\ run'[w].pc \notin Busy
  BY <1>1, RunRests DEF Sound, Fitting
<1>3. ItemInv' /\ OwnInv' /\ ValidInv'
  <2>1. \A x \in Streams : Len(journal[x]) <= Len(journal'[x])
    BY JournalTyped
  <2> QED
    BY <1>1, <1>2, <2>1, RunsKept DEF TypeOK
<1>4. MailInv'
  BY <1>1, MailKept DEF Succeeded
<1> QED
  BY <1>1, <1>3, <1>4 DEF TypeOK, CondInv, ClaimInv

LEMMA ScanKeeps ==
  ASSUME IInv, NEW w \in Workers, NEW k \in Kinds, NEW stale \in BOOLEAN, Scan(w, k, stale)
  PROVE  IInv'
<1>1. PICK win \in IF stale /\ window > 0 THEN {window - 1} ELSE {window} :
        Set(w, [Idle EXCEPT !.pc = "next", !.stale = stale, !.todo =
          UNION {ItemsOf(s, win) : s \in {t \in Subjects : kind[t] = k /\ Breached(t)}}])
  BY DEF Scan
<1>2. win \in 0..MaxWindow
  BY AlertAssumption DEF IInv, TypeOK
<1>3. PICK todo : todo = UNION {ItemsOf(s, win) : s \in {t \in Subjects : kind[t] = k /\ Breached(t)}}
  OBVIOUS
<1>4. \A it \in todo : it \in Items /\ Sound(it)
  BY <1>2, <1>3, ItemsSound DEF IInv
<1>5. PICK r : r = [Idle EXCEPT !.pc = "next", !.stale = stale, !.todo = todo]
  OBVIOUS
<1>6. r \in Runs /\ r.pc = "next" /\ r.todo = todo
  BY <1>4, <1>5 DEF Idle, Runs
<1> QED
  BY <1>1, <1>3, <1>4, <1>5, <1>6, BeginKeeps DEF Scan

LEMMA ReportKeeps ==
  ASSUME IInv, NEW w \in Workers, NEW s \in Subjects, Report(w, s)
  PROVE  IInv'
<1>1. PICK todo : todo = ItemsOf(s, window)
  OBVIOUS
<1>2. \A it \in todo : it \in Items /\ Sound(it)
  BY <1>1, ItemsSound DEF IInv, TypeOK
<1>3. PICK r : r = [Idle EXCEPT !.pc = "next", !.todo = todo]
  OBVIOUS
<1>4. r \in Runs /\ r.pc = "next" /\ r.todo = todo
  BY <1>2, <1>3 DEF Idle, Runs
<1> QED
  BY <1>1, <1>2, <1>3, <1>4, BeginKeeps DEF Report

LEMMA OpenKeeps ==
  ASSUME IInv, NEW w \in Workers, Open(w)
  PROVE  IInv'
<1> USE DEF IInv, world
<1>0. run[w] \in Runs /\ run[w].pc = "next" /\ \A it \in run[w].todo : it \in Items /\ Sound(it)
  BY RunTyped DEF Open, ItemInv, RunInv, Runs
<1>1. UNCHANGED <<world, journal, mails, unrecorded, changes, faults>>
  BY DEF Open
<1>2. PICK r \in Runs :
        /\ Set(w, r)
        /\ events' \subseteq [key : Keys, gen : 0..MaxChanges] /\ streams' \subseteq Streams
        /\ \A it \in r.todo : Sound(it)
        /\ \/ r.pc \in {"idle", "next"}
           \/ /\ r.pc = "claim" /\ r.item \in Items /\ Fitting(r.item.key)
              /\ \A q \in r.rest : <<r.item.key, q>> \in Streams
  <2>1. CASE run[w].todo = {} /\ Stop(w) /\ UNCHANGED <<events, streams>>
    BY <2>1, IdleRun DEF Stop, TypeOK
  <2>2. ASSUME NEW it \in run[w].todo,
               Set(w, [run[w] EXCEPT !.todo = run[w].todo \ {it}]), UNCHANGED <<events, streams>>
        PROVE  \E r \in Runs :
                 /\ Set(w, r)
                 /\ events' \subseteq [key : Keys, gen : 0..MaxChanges] /\ streams' \subseteq Streams
                 /\ \A i \in r.todo : Sound(i)
                 /\ r.pc \in {"idle", "next"}
    <3>1. PICK r : r = [run[w] EXCEPT !.todo = run[w].todo \ {it}]
      OBVIOUS
    <3>2. r \in Runs /\ r.pc = "next" /\ r.todo = run[w].todo \ {it}
      BY <1>0, <3>1 DEF Runs
    <3> QED
      BY <1>0, <2>2, <3>1, <3>2 DEF TypeOK
  <2>3. ASSUME NEW it \in run[w].todo,
               \/ UNCHANGED <<events, streams>>
               \/ /\ events' = events \cup {[key |-> it.key, gen |-> it.gen]}
                  /\ streams' = streams \cup ({it.key} \X it.to),
               Set(w, [run[w] EXCEPT !.pc = "claim", !.todo = run[w].todo \ {it}, !.item = it,
                  !.rest = {q \in Recipients : <<it.key, q>> \in streams'}])
        PROVE  \E r \in Runs :
                 /\ Set(w, r)
                 /\ events' \subseteq [key : Keys, gen : 0..MaxChanges] /\ streams' \subseteq Streams
                 /\ \A i \in r.todo : Sound(i)
                 /\ r.pc = "claim" /\ r.item \in Items /\ Fitting(r.item.key)
                 /\ \A q \in r.rest : <<r.item.key, q>> \in Streams
    <3>1. PICK rest : rest = {q \in Recipients : <<it.key, q>> \in streams'}
      OBVIOUS
    <3>2. PICK r : r = [run[w] EXCEPT !.pc = "claim", !.todo = run[w].todo \ {it}, !.item = it,
                                      !.rest = rest]
      OBVIOUS
    <3>3. it \in Items /\ Sound(it) /\ it.key \in Keys /\ it.gen \in 0..MaxChanges
      BY <1>0 DEF Items
    <3>4. /\ r \in Runs /\ r.pc = "claim" /\ r.todo = run[w].todo \ {it}
          /\ r.item = it /\ r.rest = rest
      BY <1>0, <3>1, <3>2, <3>3 DEF Runs
    <3>5. streams' \subseteq Streams
      BY <2>3, <3>3 DEF TypeOK, Sound
    <3>6. events' \subseteq [key : Keys, gen : 0..MaxChanges]
      BY <2>3, <3>3 DEF TypeOK
    <3> QED
      BY <1>0, <2>3, <3>1, <3>2, <3>3, <3>4, <3>5, <3>6 DEF Sound
  <2> QED
    BY <2>1, <2>2, <2>3 DEF Open
<1>3. run' \in [Workers -> Runs] /\ run'[w] = r /\ \A v \in Workers : v # w => run'[v] = run[v]
  BY <1>2, SetRun
<1>4. RunInv(w)' /\ ValidRun(w)' /\ run'[w].pc \notin Busy
  BY <1>1, <1>2, <1>3 DEF RunInv, ValidRun, Busy, Sound, Fitting
<1>5. ItemInv' /\ OwnInv' /\ ValidInv'
  <2>1. \A x \in Streams : Len(journal[x]) <= Len(journal'[x])
    BY <1>1, JournalTyped
  <2> QED
    BY <1>1, <1>3, <1>4, <2>1, RunsKept DEF TypeOK
<1>6. MailInv'
  BY <1>0, <1>1, <1>2, <1>3, MailKept DEF Succeeded
<1> QED
  BY <1>1, <1>2, <1>3, <1>5, <1>6 DEF TypeOK, CondInv, ClaimInv
-------------------------------------------------------------------------------
(* Claiming, checking, sending, recording                                  *)

\* A run that gives up what it holds.
LEMMA StopRun ==
  ASSUME IInv, NEW w \in Workers, Stop(w), kind' = kind,
         journal' \in [Streams -> Seq(Claims)],
         \A x \in Streams : Len(journal[x]) <= Len(journal'[x])
  PROVE  /\ run' \in [Workers -> Runs] /\ run'[w].pc = "idle"
         /\ \A v \in Workers : v # w => run'[v] = run[v]
         /\ ItemInv' /\ OwnInv' /\ ValidInv'
<1>1. run' \in [Workers -> Runs] /\ run'[w] = Idle /\ \A v \in Workers : v # w => run'[v] = run[v]
  BY IdleRun, SetRun DEF Stop, IInv
<1>2. RunInv(w)' /\ ValidRun(w)' /\ run'[w].pc \notin Busy
  BY <1>1, IdleRun, RunRests
<1> QED
  BY <1>1, <1>2, IdleRun, RunsKept DEF IInv

LEMMA ClaimKeeps ==
  ASSUME IInv, NEW w \in Workers, Claim(w)
  PROVE  IInv'
<1> USE DEF IInv, world
<1>0. /\ run[w] \in Runs /\ run[w].pc = "claim"
      /\ \A it \in run[w].todo : it \in Items /\ Sound(it)
      /\ run[w].item \in Items /\ Fitting(run[w].item.key)
      /\ \A r \in run[w].rest : r \in Recipients /\ <<run[w].item.key, r>> \in Streams
  BY RunTyped DEF Claim, ItemInv, RunInv, Runs
<1>1. UNCHANGED <<world, events, streams, mails, unrecorded, changes, faults>>
  BY DEF Claim
<1>2. ASSUME UNCHANGED journal, NEW r \in Runs, Set(w, r), r.pc \in {"next", "claim"},
             r.todo \subseteq run[w].todo,
             r.pc = "claim" => r.item = run[w].item /\ r.rest \subseteq run[w].rest
      PROVE  IInv'
  <2>1. run' \in [Workers -> Runs] /\ run'[w] = r /\ \A v \in Workers : v # w => run'[v] = run[v]
    BY <1>2, SetRun
  <2>2. RunInv(w)' /\ ValidRun(w)' /\ run'[w].pc \notin Busy
    BY <1>0, <1>1, <1>2, <2>1 DEF RunInv, ValidRun, Busy, Sound, Fitting
  <2>3. \A x \in Streams : Len(journal[x]) <= Len(journal'[x])
    BY <1>2, JournalTyped
  <2>4. ItemInv' /\ OwnInv' /\ ValidInv'
    BY <1>1, <1>2, <2>1, <2>2, <2>3, RunsKept DEF TypeOK
  <2>5. MailInv'
    BY <1>0, <1>1, <1>2, <2>1, MailKept DEF Succeeded
  <2> QED
    BY <1>1, <1>2, <2>1, <2>4, <2>5 DEF TypeOK, CondInv, ClaimInv
<1>3. CASE UNCHANGED journal /\ Stop(w)
  <2>1. \A x \in Streams : Len(journal[x]) <= Len(journal'[x])
    BY <1>3, JournalTyped
  <2>2. /\ run' \in [Workers -> Runs] /\ run'[w].pc = "idle"
        /\ \A v \in Workers : v # w => run'[v] = run[v]
        /\ ItemInv' /\ OwnInv' /\ ValidInv'
    BY <1>1, <1>3, <2>1, StopRun DEF TypeOK
  <2>3. MailInv'
    BY <1>0, <1>1, <1>3, <2>2, MailKept DEF Succeeded
  <2> QED
    BY <1>1, <1>3, <2>2, <2>3 DEF TypeOK, CondInv, ClaimInv
<1>4. CASE Set(w, [Idle EXCEPT !.pc = "next", !.stale = run[w].stale, !.todo = run[w].todo])
           /\ UNCHANGED journal
  <2>1. PICK r : r = [Idle EXCEPT !.pc = "next", !.stale = run[w].stale, !.todo = run[w].todo]
    OBVIOUS
  <2>2. r \in Runs /\ r.pc = "next" /\ r.todo = run[w].todo
    BY <1>0, <2>1 DEF Idle, Runs
  <2> QED
    BY <1>2, <1>4, <2>1, <2>2
<1>5. ASSUME NEW q \in run[w].rest, UNCHANGED journal,
             Set(w, [run[w] EXCEPT !.rest = run[w].rest \ {q}])
      PROVE  IInv'
  <2>1. PICK r : r = [run[w] EXCEPT !.rest = run[w].rest \ {q}]
    OBVIOUS
  <2>2. /\ r \in Runs /\ r.pc = "claim" /\ r.todo = run[w].todo
        /\ r.item = run[w].item /\ r.rest = run[w].rest \ {q}
    BY <1>0, <2>1 DEF Runs
  <2> QED
    BY <1>2, <1>5, <2>1, <2>2
<1>6. ASSUME NEW q \in run[w].rest, ~Succeeded(<<run[w].item.key, q>>),
             journal' = [journal EXCEPT ![<<run[w].item.key, q>>] =
                           Append(@, [live |-> TRUE, end |-> "open"])],
             Set(w, [run[w] EXCEPT !.pc = FirstCheck(run[w].item), !.rest = run[w].rest \ {q},
                  !.rcpt = q, !.valid = Truths(run[w].item, q),
                  !.attempt = Len(journal'[<<run[w].item.key, q>>])])
      PROVE  IInv'
  <2>1. PICK x : x = <<run[w].item.key, q>>
    OBVIOUS
  <2>2. x \in Streams
    BY <1>0, <1>6, <2>1
  <2>3. PICK n : n = Len(journal'[x])
    OBVIOUS
  <2>4. PICK truths : truths = Truths(run[w].item, q)
    OBVIOUS
  <2>5. PICK pc : pc = FirstCheck(run[w].item)
    OBVIOUS
  <2>6. truths \subseteq {"recipient", "breach"} /\ pc \in {"send", "check"}
        /\ (pc = "check" <=> run[w].item.key.stage # "alert")
    BY <2>4, <2>5 DEF Truths, FirstCheck
  <2>7. /\ journal' \in [Streams -> Seq(Claims)]
        /\ Len(journal'[x]) = Len(journal[x]) + 1
        /\ \A y \in Streams : y # x => journal'[y] = journal[y]
        /\ ClaimInv'
        /\ \A y \in Streams : Succeeded(y)' <=> Succeeded(y)
    BY <1>6, <2>1, <2>2, ClaimStep
  <2>8. \A y \in Streams : Len(journal[y]) \in Nat
    BY JournalTyped
  <2>9. PICK r : r = [run[w] EXCEPT !.pc = pc, !.rest = run[w].rest \ {q}, !.rcpt = q,
                                    !.valid = truths, !.attempt = n]
    OBVIOUS
  <2>10. /\ r \in Runs /\ r.pc = pc /\ r.todo = run[w].todo /\ r.item = run[w].item
         /\ r.rest = run[w].rest \ {q} /\ r.rcpt = q /\ r.attempt = n
    <3>1. n \in Nat
      BY <2>2, <2>3, <2>7, <2>8
    <3>2. q \in Recipients /\ run[w].rest \ {q} \in SUBSET Recipients
      BY <1>0, <1>6
    <3> QED
      BY <1>0, <2>6, <2>9, <3>1, <3>2 DEF Runs
  <2>11. Set(w, r)
    BY <1>6, <2>1, <2>3, <2>4, <2>5, <2>9
  <2>12. run' \in [Workers -> Runs] /\ run'[w] = r /\ \A v \in Workers : v # w => run'[v] = run[v]
    BY <2>10, <2>11, SetRun
  <2>13. Stream(w)' = x
    BY <2>1, <2>10, <2>12 DEF Stream
  <2>14. RunInv(w)'
    <3>1. n \in 1..Len(journal'[x])
      BY <2>2, <2>3, <2>7, <2>8
    <3> QED
      BY <1>0, <1>1, <2>2, <2>10, <2>12, <2>13, <3>1 DEF RunInv, Sound, Fitting
  <2>15. ValidRun(w)'
    BY <2>6, <2>10, <2>12 DEF ValidRun
  <2>16. \A v \in Workers : v # w /\ run[v].pc \in Busy /\ run'[w].pc \in Busy
                             /\ Stream(v) = Stream(w)'
                             => run[v].attempt # run'[w].attempt
    <3>1. SUFFICES ASSUME NEW v \in Workers, run[v].pc \in Busy, Stream(v) = x
                   PROVE  run[v].attempt # n
      BY <2>10, <2>12, <2>13
    <3>2. run[v].attempt \in 1..Len(journal[x])
      BY <3>1 DEF ItemInv, RunInv
    <3> QED
      BY <2>2, <2>3, <2>7, <2>8, <3>2
  <2>17. \A y \in Streams : Len(journal[y]) <= Len(journal'[y])
    BY <2>7, <2>8
  <2>18. ItemInv' /\ OwnInv' /\ ValidInv'
    BY <1>1, <2>7, <2>12, <2>14, <2>15, <2>16, <2>17, RunsKept
  <2>19. MailInv'
    BY <1>0, <1>1, <2>6, <2>7, <2>10, <2>12, MailKept
  <2> QED
    BY <1>1, <2>7, <2>12, <2>18, <2>19 DEF TypeOK, CondInv
<1> QED
  BY <1>3, <1>4, <1>5, <1>6 DEF Claim
\* A run that goes on with the attempt it holds.
LEMMA RunGoesOn ==
  ASSUME IInv, NEW w \in Workers, NEW r \in Runs, Set(w, r), run[w].pc \in Busy, r.pc \in Busy,
         r.todo = run[w].todo, r.item = run[w].item, r.rest = run[w].rest,
         r.rcpt = run[w].rcpt, r.attempt = run[w].attempt,
         r.pc = "check" => run[w].item.key.stage # "alert",
         r.pc \in {"send", "record"} /\ run[w].item.key.stage # "alert" =>
           r.valid = {"recipient", "breach"},
         kind' = kind, journal' = journal
  PROVE  /\ run' \in [Workers -> Runs] /\ run'[w] = r
         /\ \A v \in Workers : v # w => run'[v] = run[v]
         /\ ItemInv' /\ OwnInv' /\ ValidInv'
<1> USE DEF IInv
<1>1. run' \in [Workers -> Runs] /\ run'[w] = r /\ \A v \in Workers : v # w => run'[v] = run[v]
  BY SetRun
<1>2. Stream(w)' = Stream(w)
  BY <1>1 DEF Stream
<1>3. RunInv(w) /\ run[w].pc \in Busy
  BY DEF ItemInv
<1>4. RunInv(w)'
  BY <1>1, <1>2, <1>3 DEF RunInv, Sound, Fitting, Busy
<1>5. ValidRun(w)'
  BY <1>1 DEF ValidRun
<1>6. \A v \in Workers : v # w /\ run[v].pc \in Busy /\ run'[w].pc \in Busy
                           /\ Stream(v) = Stream(w)'
                           => run[v].attempt # run'[w].attempt
  BY <1>1, <1>2 DEF OwnInv
<1>7. \A x \in Streams : Len(journal[x]) <= Len(journal'[x])
  BY JournalTyped
<1> QED
  BY <1>1, <1>4, <1>5, <1>6, <1>7, RunsKept DEF TypeOK

\* A run that turns to its next recipient.
LEMMA RunServes ==
  ASSUME IInv, NEW w \in Workers, Set(w, Served(w)), run[w].pc \in Busy, kind' = kind,
         journal' \in [Streams -> Seq(Claims)],
         \A x \in Streams : Len(journal[x]) <= Len(journal'[x])
  PROVE  /\ run' \in [Workers -> Runs] /\ run'[w].pc = "claim"
         /\ \A v \in Workers : v # w => run'[v] = run[v]
         /\ ItemInv' /\ OwnInv' /\ ValidInv'
<1> USE DEF IInv
<1>0. run[w] \in Runs /\ RunInv(w)
  BY RunTyped DEF ItemInv
<1>1. PICK r : r = Served(w)
  OBVIOUS
<1>2. /\ r \in Runs /\ r.pc = "claim" /\ r.todo = run[w].todo
      /\ r.item = run[w].item /\ r.rest = run[w].rest
  BY <1>0, <1>1 DEF Served, Runs
<1>3. run' \in [Workers -> Runs] /\ run'[w] = r /\ \A v \in Workers : v # w => run'[v] = run[v]
  BY <1>1, <1>2, SetRun
<1>4. RunInv(w)' /\ ValidRun(w)' /\ run'[w].pc \notin Busy
  BY <1>0, <1>2, <1>3 DEF RunInv, ValidRun, Busy, Sound, Fitting
<1> QED
  BY <1>2, <1>3, <1>4, RunsKept

LEMMA CheckKeeps ==
  ASSUME IInv, NEW w \in Workers, Check(w)
  PROVE  IInv'
<1> USE DEF IInv, world
<1>0. /\ run[w] \in Runs /\ run[w].pc = "check" /\ "check" \in Busy /\ RunInv(w) /\ ValidRun(w)
      /\ UNCHANGED <<world, events, streams, mails, unrecorded, changes, faults>>
  BY RunTyped DEF Check, ItemInv, ValidInv, Busy
<1>1. CASE StillWanted(w) /\ Proceed(w, "send")
  <2>1. PICK truths : truths = Truths(run[w].item, run[w].rcpt)
    OBVIOUS
  <2>2. truths = {"recipient", "breach"}
    <3>1. "breach" \in truths /\ truths \subseteq {"recipient", "breach"}
      BY <1>1, <2>1 DEF StillWanted, Truths
    <3>2. "recipient" \in truths
      <4>1. run[w].rcpt \in approvers \cup {"escalation", "default"}
        <5>1. run[w].item.key.stage \in Stages /\ run[w].item.key.stage # "alert"
          BY <1>0 DEF RunInv, ValidRun, Items, Keys
        <5>2. CASE run[w].item.key.stage = "reminder"
          BY <1>1, <5>2 DEF StillWanted
        <5>3. CASE run[w].item.key.stage = "escalation"
          BY <1>0, <5>3 DEF RunInv, Stream, Streams
        <5> QED
          BY <5>1, <5>2, <5>3 DEF Stages
      <4> QED
        BY <2>1, <4>1 DEF Truths
    <3> QED
      BY <3>1, <3>2
  <2>3. PICK r : r = [run[w] EXCEPT !.pc = "send", !.valid = @ \cup truths]
    OBVIOUS
  <2>4. /\ r \in Runs /\ r.pc = "send" /\ r.todo = run[w].todo /\ r.item = run[w].item
        /\ r.rest = run[w].rest /\ r.rcpt = run[w].rcpt /\ r.attempt = run[w].attempt
        /\ r.valid = {"recipient", "breach"}
    BY <1>0, <2>2, <2>3 DEF Runs
  <2>5. Set(w, r) /\ journal' = journal
    BY <1>1, <2>1, <2>3 DEF Proceed
  <2>6. /\ run' \in [Workers -> Runs] /\ run'[w] = r
        /\ \A v \in Workers : v # w => run'[v] = run[v]
        /\ ItemInv' /\ OwnInv' /\ ValidInv'
    BY <1>0, <2>4, <2>5, RunGoesOn DEF Busy
  <2>7. MailInv'
    BY <1>0, <2>4, <2>5, <2>6, MailKept DEF Succeeded
  <2> QED
    BY <1>0, <2>5, <2>6, <2>7 DEF TypeOK, CondInv, ClaimInv
<1>2. CASE Suppress(w)
  <2>1. PICK x, n : x = Stream(w) /\ n = run[w].attempt
    OBVIOUS
  <2>2. /\ journal' \in [Streams -> Seq(Claims)]
        /\ \A y \in Streams : Len(journal'[y]) = Len(journal[y])
        /\ ClaimInv'
        /\ \A y \in Streams : y # x => (Succeeded(y)' <=> Succeeded(y))
        /\ Succeeded(x)' <=> Succeeded(x) \/ Fence(w)
    BY <1>0, <1>2, <2>1, EndStep DEF Suppress
  <2>3. \A y \in Streams : Len(journal[y]) <= Len(journal'[y])
    BY <2>2, JournalTyped
  <2>4. /\ run' \in [Workers -> Runs] /\ run'[w].pc \in {"idle", "claim"}
        /\ \A v \in Workers : v # w => run'[v] = run[v]
        /\ ItemInv' /\ OwnInv' /\ ValidInv'
    <3>1. CASE Stop(w)
      BY <1>0, <2>2, <2>3, <3>1, StopRun
    <3>2. CASE Set(w, Served(w))
      BY <1>0, <2>2, <2>3, <3>2, RunServes
    <3> QED
      BY <1>2, <3>1, <3>2 DEF Suppress
  <2>5. MailInv'
    <3>1. \A y \in Streams : Succeeded(y) => Succeeded(y)'
      BY <2>2
    <3> QED
      BY <1>0, <2>4, <3>1, MailKept
  <2> QED
    BY <1>0, <2>2, <2>4, <2>5 DEF TypeOK, CondInv
<1> QED
  BY <1>1, <1>2 DEF Check
\* A run that leaves the recording of a mail accounts for it: by the success that
\* is recorded, or by one mail more that is missing from the journal.
LEMMA MailLeft ==
  ASSUME TypeOK, MailInv, NEW w \in Workers, run[w].pc = "record", run'[w].pc # "record",
         NEW x \in Streams, x = Stream(w),
         \A v \in Workers : v # w => run'[v] = run[v], mails' = mails,
         \A y \in Streams : y # x => (Succeeded(y)' <=> Succeeded(y)),
         \/ ~Succeeded(x) /\ Succeeded(x)' /\ unrecorded' = unrecorded
         \/ /\ Succeeded(x) => Succeeded(x)'
            /\ unrecorded' = [unrecorded EXCEPT ![x] = @ + 1]
  PROVE  MailInv'
<1>1. SUFFICES ASSUME NEW y \in Streams
               PROVE  (mails[y] <= unrecorded[y] + Cardinality(Recording(y)) + Credit(y))'
  BY DEF MailInv
<1>2. w \notin Recording(y)' /\ (w \in Recording(y) <=> y = x)
  BY DEF Recording
<1>3. /\ Cardinality(Recording(y)) \in Nat /\ Cardinality(Recording(y))' \in Nat
      /\ y # x => Cardinality(Recording(y))' = Cardinality(Recording(y))
      /\ y = x => Cardinality(Recording(y))' = Cardinality(Recording(y)) - 1
  BY <1>2, RecordingChanges
<1>4. Credit(y) \in {0, 1} /\ Credit(y)' \in {0, 1}
      /\ (Succeeded(y) <=> Credit(y) = 1) /\ (Succeeded(y)' <=> Credit(y)' = 1)
  BY DEF Credit
<1>5. mails[y] \in Nat /\ unrecorded[y] \in Nat
      /\ mails[y] <= unrecorded[y] + Cardinality(Recording(y)) + Credit(y)
  BY DEF TypeOK, MailInv
<1>6. unrecorded'[y] \in Nat /\ \/ unrecorded'[y] = unrecorded[y]
                                \/ y = x /\ unrecorded'[y] = unrecorded[y] + 1
  BY DEF TypeOK
<1>7. CASE y # x
  <2>1. Credit(y)' = Credit(y) /\ unrecorded'[y] = unrecorded[y]
    BY <1>4, <1>6, <1>7
  <2> QED
    BY <1>3, <1>5, <1>7, <2>1
<1>8. CASE y = x
  <2>1. \/ Credit(y) = 0 /\ Credit(y)' = 1 /\ unrecorded'[y] = unrecorded[y]
        \/ Credit(y) <= Credit(y)' /\ unrecorded'[y] = unrecorded[y] + 1
    BY <1>4, <1>5, <1>8 DEF TypeOK
  <2> QED
    BY <1>3, <1>4, <1>5, <1>8, <2>1
<1> QED
  BY <1>7, <1>8

LEMMA SendKeeps ==
  ASSUME IInv, NEW w \in Workers, Send(w)
  PROVE  IInv'
<1> USE DEF IInv, world
<1>0. /\ run[w] \in Runs /\ run[w].pc = "send" /\ "send" \in Busy /\ RunInv(w) /\ ValidRun(w)
      /\ UNCHANGED <<world, events, streams, unrecorded, changes>>
  BY RunTyped DEF Send, ItemInv, ValidInv, Busy
<1>1. PICK x, n : x = Stream(w) /\ n = run[w].attempt
  OBVIOUS
<1>2. x \in Streams
  BY <1>0, <1>1 DEF RunInv
<1>3. CASE /\ mails' = [mails EXCEPT ![Stream(w)] = @ + 1]
           /\ Set(w, [run[w] EXCEPT !.pc = "record"]) /\ UNCHANGED <<journal, faults>>
  <2>1. PICK r : r = [run[w] EXCEPT !.pc = "record"]
    OBVIOUS
  <2>2. /\ r \in Runs /\ r.pc = "record" /\ r.todo = run[w].todo /\ r.item = run[w].item
        /\ r.rest = run[w].rest /\ r.rcpt = run[w].rcpt /\ r.attempt = run[w].attempt
        /\ r.valid = run[w].valid
    BY <1>0, <2>1 DEF Runs
  <2>3. /\ run' \in [Workers -> Runs] /\ run'[w] = r
        /\ \A v \in Workers : v # w => run'[v] = run[v]
        /\ ItemInv' /\ OwnInv' /\ ValidInv'
    <3>1. r.pc \in Busy /\ (run[w].item.key.stage # "alert" => r.valid = {"recipient", "breach"})
      BY <1>0, <2>2 DEF ValidRun, Busy
    <3> QED
      BY <1>0, <1>3, <2>1, <2>2, <3>1, RunGoesOn
  <2>4. MailInv'
    <3>1. SUFFICES ASSUME NEW y \in Streams
                   PROVE  (mails[y] <= unrecorded[y] + Cardinality(Recording(y)) + Credit(y))'
      BY DEF MailInv
    <3>2. w \notin Recording(y) /\ (w \in Recording(y)' <=> y = x)
      BY <1>0, <1>1, <2>2, <2>3 DEF Recording, Stream
    <3>3. /\ Cardinality(Recording(y)) \in Nat /\ Cardinality(Recording(y))' \in Nat
          /\ y # x => Cardinality(Recording(y))' = Cardinality(Recording(y))
          /\ y = x => Cardinality(Recording(y))' = Cardinality(Recording(y)) + 1
      BY <2>3, <3>2, RecordingChanges
    <3>4. Credit(y)' = Credit(y) /\ Credit(y) \in Nat
      BY <1>3 DEF Credit, Succeeded
    <3>5. mails[y] \in Nat /\ unrecorded[y] \in Nat /\ unrecorded'[y] = unrecorded[y]
          /\ mails[y] <= unrecorded[y] + Cardinality(Recording(y)) + Credit(y)
      BY <1>0 DEF TypeOK, MailInv
    <3>6. mails'[y] = IF y = x THEN mails[y] + 1 ELSE mails[y]
      BY <1>1, <1>3 DEF TypeOK
    <3> QED
      BY <3>3, <3>4, <3>5, <3>6
  <2>5. mails' \in [Streams -> Nat]
    BY <1>1, <1>2, <1>3 DEF TypeOK
  <2> QED
    BY <1>0, <1>3, <2>3, <2>4, <2>5 DEF TypeOK, CondInv, ClaimInv
<1>4. CASE /\ faults < MaxFaults /\ faults' = faults + 1
           /\ End(w, "failed") /\ Stop(w) /\ UNCHANGED mails
  <2>1. /\ journal' \in [Streams -> Seq(Claims)]
        /\ \A y \in Streams : Len(journal'[y]) = Len(journal[y])
        /\ ClaimInv'
        /\ \A y \in Streams : y # x => (Succeeded(y)' <=> Succeeded(y))
        /\ Succeeded(x)' <=> Succeeded(x)
    BY <1>0, <1>1, <1>4, EndStep
  <2>2. \A y \in Streams : Len(journal[y]) <= Len(journal'[y])
    BY <2>1, JournalTyped
  <2>3. /\ run' \in [Workers -> Runs] /\ run'[w].pc = "idle"
        /\ \A v \in Workers : v # w => run'[v] = run[v]
        /\ ItemInv' /\ OwnInv' /\ ValidInv'
    BY <1>0, <1>4, <2>1, <2>2, StopRun
  <2>4. MailInv'
    BY <1>0, <1>4, <2>1, <2>3, MailKept
  <2>5. faults' \in 0..MaxFaults
    BY <1>4, AlertAssumption DEF TypeOK
  <2> QED
    BY <1>0, <1>4, <2>1, <2>3, <2>4, <2>5 DEF TypeOK, CondInv
<1> QED
  BY <1>3, <1>4 DEF Send

LEMMA RecordKeeps ==
  ASSUME IInv, NEW w \in Workers, Record(w)
  PROVE  IInv'
<1> USE DEF IInv, world
<1>0. /\ run[w] \in Runs /\ run[w].pc = "record" /\ run[w].pc \in Busy /\ RunInv(w)
      /\ UNCHANGED <<world, events, streams, mails, changes>>
  BY RunTyped DEF Record, ItemInv, Busy
<1>1. PICK x, n : x = Stream(w) /\ n = run[w].attempt
  OBVIOUS
<1>2. x \in Streams
  BY <1>0, <1>1 DEF RunInv
<1>3. CASE Fence(w) /\ End(w, "succeeded") /\ Set(w, Served(w)) /\ UNCHANGED <<unrecorded, faults>>
  <2>1. /\ journal' \in [Streams -> Seq(Claims)]
        /\ \A y \in Streams : Len(journal'[y]) = Len(journal[y])
        /\ ClaimInv'
        /\ \A y \in Streams : y # x => (Succeeded(y)' <=> Succeeded(y))
        /\ Succeeded(x)'
    BY <1>0, <1>1, <1>3, EndStep
  <2>2. \A y \in Streams : Len(journal[y]) <= Len(journal'[y])
    BY <2>1, JournalTyped
  <2>3. /\ run' \in [Workers -> Runs] /\ run'[w].pc = "claim"
        /\ \A v \in Workers : v # w => run'[v] = run[v]
        /\ ItemInv' /\ OwnInv' /\ ValidInv'
    BY <1>0, <1>3, <2>1, <2>2, RunServes
  <2>4. ~Succeeded(x)
    BY <1>0, <1>1, <1>3, FenceHolds
  <2>5. MailInv'
    BY <1>0, <1>1, <1>2, <1>3, <2>1, <2>3, <2>4, MailLeft
  <2> QED
    BY <1>0, <1>3, <2>1, <2>3, <2>5 DEF TypeOK, CondInv
<1>4. ASSUME Stop(w), unrecorded' = [unrecorded EXCEPT ![Stream(w)] = @ + 1],
             faults' \in 0..MaxFaults,
             journal' \in [Streams -> Seq(Claims)], ClaimInv',
             \A y \in Streams : Len(journal'[y]) = Len(journal[y]),
             \A y \in Streams : Succeeded(y)' <=> Succeeded(y)
      PROVE  IInv'
  <2>1. \A y \in Streams : Len(journal[y]) <= Len(journal'[y])
    BY <1>4, JournalTyped
  <2>2. /\ run' \in [Workers -> Runs] /\ run'[w].pc = "idle"
        /\ \A v \in Workers : v # w => run'[v] = run[v]
        /\ ItemInv' /\ OwnInv' /\ ValidInv'
    BY <1>0, <1>4, <2>1, StopRun
  <2>3. MailInv'
    BY <1>0, <1>1, <1>2, <1>4, <2>2, MailLeft
  <2>4. unrecorded' \in [Streams -> Nat]
    BY <1>1, <1>2, <1>4 DEF TypeOK
  <2> QED
    BY <1>0, <1>4, <2>2, <2>3, <2>4 DEF TypeOK, CondInv
<1>5. CASE /\ Fence(w) /\ faults < MaxFaults /\ faults' = faults + 1
           /\ End(w, "failed") /\ Stop(w)
           /\ unrecorded' = [unrecorded EXCEPT ![Stream(w)] = @ + 1]
  <2>1. /\ journal' \in [Streams -> Seq(Claims)]
        /\ \A y \in Streams : Len(journal'[y]) = Len(journal[y])
        /\ ClaimInv'
        /\ \A y \in Streams : y # x => (Succeeded(y)' <=> Succeeded(y))
        /\ Succeeded(x)' <=> Succeeded(x)
    BY <1>0, <1>1, <1>5, EndStep
  <2>2. faults' \in 0..MaxFaults
    BY <1>5, AlertAssumption DEF TypeOK
  <2> QED
    BY <1>4, <1>5, <2>1, <2>2
<1>6. CASE /\ ~Fence(w) /\ Stop(w) /\ UNCHANGED <<journal, faults>>
           /\ unrecorded' = [unrecorded EXCEPT ![Stream(w)] = @ + 1]
  <2>1. /\ journal' \in [Streams -> Seq(Claims)] /\ ClaimInv' /\ faults' \in 0..MaxFaults
        /\ \A y \in Streams : Len(journal'[y]) = Len(journal[y])
        /\ \A y \in Streams : Succeeded(y)' <=> Succeeded(y)
    BY <1>6 DEF TypeOK, ClaimInv, Succeeded
  <2> QED
    BY <1>4, <1>6, <2>1
<1> QED
  BY <1>3, <1>5, <1>6 DEF Record

LEMMA CrashKeeps ==
  ASSUME IInv, NEW w \in Workers, Crash(w)
  PROVE  IInv'
<1> USE DEF IInv, world
<1>0. UNCHANGED <<world, events, streams, journal, mails, changes>> /\ Stop(w)
  BY DEF Crash
<1>1. \A y \in Streams : Len(journal[y]) <= Len(journal'[y])
  BY <1>0, JournalTyped
<1>2. /\ run' \in [Workers -> Runs] /\ run'[w].pc = "idle"
      /\ \A v \in Workers : v # w => run'[v] = run[v]
      /\ ItemInv' /\ OwnInv' /\ ValidInv'
  BY <1>0, <1>1, StopRun DEF TypeOK
<1>3. faults' \in 0..MaxFaults
  BY AlertAssumption DEF Crash, TypeOK
<1>4. \A y \in Streams : Succeeded(y)' <=> Succeeded(y)
  BY <1>0 DEF Succeeded
<1>5. MailInv' /\ unrecorded' \in [Streams -> Nat]
  <2>1. CASE run[w].pc = "record"
    <3>1. PICK x : x = Stream(w)
      OBVIOUS
    <3>2. x \in Streams
      BY <2>1, <3>1 DEF ItemInv, RunInv, Busy
    <3>3. unrecorded' = [unrecorded EXCEPT ![x] = @ + 1]
      BY <2>1, <3>1 DEF Crash
    <3>4. MailInv'
      BY <1>0, <1>2, <1>4, <2>1, <3>1, <3>2, <3>3, MailLeft
    <3> QED
      BY <3>2, <3>3, <3>4 DEF TypeOK
  <2>2. CASE run[w].pc # "record"
    <3>1. unrecorded' = unrecorded
      BY <2>2 DEF Crash
    <3> QED
      BY <1>0, <1>2, <1>4, <2>2, <3>1, MailKept DEF TypeOK
  <2> QED
    BY <2>1, <2>2
<1> QED
  BY <1>0, <1>2, <1>3, <1>5 DEF TypeOK, CondInv, ClaimInv
-------------------------------------------------------------------------------
(* The world                                                               *)

LEMMA RunsStand ==
  ASSUME IInv, UNCHANGED <<kind, run, mails, unrecorded>>,
         \A x \in Streams : Len(journal'[x]) = Len(journal[x]),
         \A x \in Streams : Succeeded(x)' <=> Succeeded(x)
  PROVE  ItemInv' /\ OwnInv' /\ ValidInv' /\ MailInv'
<1>1. ItemInv'
  <2>1. SUFFICES ASSUME NEW w \in Workers PROVE RunInv(w)'
    BY DEF ItemInv
  <2>2. RunInv(w)
    BY DEF IInv, ItemInv
  <2> QED
    BY <2>2 DEF RunInv, Stream, Sound, Fitting
<1>2. OwnInv'
  BY DEF IInv, OwnInv, Stream
<1>3. ValidInv'
  BY DEF IInv, ValidInv, ValidRun
<1>4. MailInv'
  <2>1. SUFFICES ASSUME NEW x \in Streams
                 PROVE  (mails[x] <= unrecorded[x] + Cardinality(Recording(x)) + Credit(x))'
    BY DEF MailInv
  <2>2. Recording(x)' = Recording(x)
    BY DEF Recording, Stream
  <2>3. Credit(x)' = Credit(x)
    BY DEF Credit
  <2> QED
    BY <2>2, <2>3 DEF IInv, MailInv
<1> QED
  BY <1>1, <1>2, <1>3, <1>4

LEMMA LeaseEndsKeeps ==
  ASSUME IInv, NEW x \in Streams, LeaseEnds(x)
  PROVE  IInv'
<1>1. UNCHANGED <<world, events, streams, run, mails, unrecorded, changes>>
  BY DEF LeaseEnds
<1>2. /\ journal' \in [Streams -> Seq(Claims)] /\ ClaimInv' /\ faults' \in 0..MaxFaults
      /\ \A y \in Streams : Len(journal'[y]) = Len(journal[y])
      /\ \A y \in Streams : Succeeded(y)' <=> Succeeded(y)
  BY LeaseStep DEF IInv
<1>3. ItemInv' /\ OwnInv' /\ ValidInv' /\ MailInv'
  BY <1>1, <1>2, RunsStand DEF world
<1> QED
  BY <1>1, <1>2, <1>3 DEF IInv, TypeOK, CondInv, world

LEMMA WorldKeeps ==
  ASSUME IInv, \/ \E s \in Subjects : Age(s) \/ Change(s)
               \/ ChangeApprovers \/ NextWindow
  PROVE  IInv'
<1> USE DEF IInv
<1>1. UNCHANGED kind /\ Others
  BY DEF Age, Change, ChangeApprovers, NextWindow
<1>2. ItemInv' /\ OwnInv' /\ ValidInv' /\ MailInv' /\ ClaimInv'
  BY <1>1, RunsStand DEF Others, Succeeded, ClaimInv
<1>3. TypeOK' /\ CondInv'
  <2>1. ASSUME NEW s \in Subjects, Age(s) PROVE TypeOK' /\ CondInv'
    <3>1. cond[s] \in [on : BOOLEAN, gen : 0..MaxChanges, age : 0..2]
      BY DEF TypeOK
    <3>2. PICK c : c = [cond[s] EXCEPT !.age = @ + 1]
      OBVIOUS
    <3>3. c \in [on : BOOLEAN, gen : 0..MaxChanges, age : 0..2] /\ c.gen = cond[s].gen
      <4>1. cond[s].age + 1 \in 0..2
        BY <2>1, <3>1 DEF Age
      <4> QED
        BY <3>1, <3>2, <4>1
    <3>4. cond' = [cond EXCEPT ![s] = c]
      BY <2>1, <3>2 DEF Age
    <3> QED
      BY <2>1, <3>3, <3>4 DEF Age, Others, TypeOK, CondInv
  <2>2. ASSUME NEW s \in Subjects, Change(s) PROVE TypeOK' /\ CondInv'
    <3>1. cond[s] \in [on : BOOLEAN, gen : 0..MaxChanges, age : 0..2]
          /\ cond[s].gen <= changes /\ changes' = changes + 1
          /\ changes \in Nat /\ changes' \in 0..MaxChanges
      BY <2>2, AlertAssumption DEF Change, TypeOK, CondInv
    <3>2. PICK c : /\ cond' = [cond EXCEPT ![s] = c]
                   /\ \/ c = [cond[s] EXCEPT !.on = FALSE]
                      \/ /\ kind[s] # "aging"
                         /\ c = [on |-> TRUE, gen |-> cond[s].gen + 1, age |-> 0]
      BY <2>2, <3>1 DEF Change, TypeOK
    <3>3. c \in [on : BOOLEAN, gen : 0..MaxChanges, age : 0..2] /\ c.gen <= changes'
          /\ (kind[s] = "aging" => c.gen = cond[s].gen)
      <4>1. CASE c = [cond[s] EXCEPT !.on = FALSE]
        <5>1. c \in [on : BOOLEAN, gen : 0..MaxChanges, age : 0..2] /\ c.gen = cond[s].gen
          BY <3>1, <4>1
        <5> QED
          BY <3>1, <5>1, AlertAssumption
      <4>2. CASE kind[s] # "aging" /\ c = [on |-> TRUE, gen |-> cond[s].gen + 1, age |-> 0]
        <5>1. cond[s].gen + 1 \in 0..MaxChanges /\ cond[s].gen + 1 <= changes'
          BY <3>1, AlertAssumption
        <5> QED
          BY <4>2, <5>1
      <4> QED
        BY <3>2, <4>1, <4>2
    <3>4. /\ cond' \in [Subjects -> [on : BOOLEAN, gen : 0..MaxChanges, age : 0..2]]
          /\ cond'[s] = c /\ \A t \in Subjects : t # s => cond'[t] = cond[t]
      BY <3>2, <3>3 DEF TypeOK
    <3>5. CondInv'
      <4>1. \A t \in Subjects : cond[t].gen \in Nat
        BY AlertAssumption DEF TypeOK
      <4> QED
        BY <1>1, <3>1, <3>3, <3>4, <4>1 DEF CondInv
    <3> QED
      BY <2>2, <3>1, <3>4, <3>5 DEF Change, Others, TypeOK
  <2>3. CASE ChangeApprovers
    <3>1. \A t \in Subjects : cond[t].gen \in Nat
      BY AlertAssumption DEF TypeOK
    <3>2. changes' \in 0..MaxChanges /\ changes \in Nat /\ changes' = changes + 1
      BY <2>3, AlertAssumption DEF ChangeApprovers, TypeOK
    <3> QED
      BY <2>3, <3>1, <3>2 DEF ChangeApprovers, Others, TypeOK, CondInv
  <2>4. CASE NextWindow
    <3>1. window' \in 0..MaxWindow
      BY <2>4, AlertAssumption DEF NextWindow, TypeOK
    <3> QED
      BY <2>4, <3>1 DEF NextWindow, Others, TypeOK, CondInv
  <2> QED
    BY <2>1, <2>2, <2>3, <2>4
<1> QED
  BY <1>2, <1>3

-------------------------------------------------------------------------------
(* The theorems                                                            *)

LEMMA InitHolds == Init => IInv
<1> SUFFICES ASSUME Init PROVE IInv
  OBVIOUS
<1> USE DEF Init
<1>1. \A w \in Workers : run[w] \in Runs /\ run[w].pc = "idle" /\ run[w].todo = {}
  BY IdleRun DEF Idle
<1>2. \A x \in Streams : journal[x] = <<>> /\ Len(journal[x]) = 0 /\ DOMAIN journal[x] = {}
                         /\ journal[x] \in Seq(Claims)
  OBVIOUS
<1>3. TypeOK
  BY <1>1, <1>2, AlertAssumption DEF TypeOK
<1>4. CondInv /\ ItemInv /\ OwnInv /\ ClaimInv /\ ValidInv
  BY <1>1, <1>2 DEF CondInv, ItemInv, RunInv, OwnInv, ClaimInv, ValidInv, ValidRun, Busy
<1>5. MailInv
  <2>1. SUFFICES ASSUME NEW x \in Streams
                 PROVE  mails[x] <= unrecorded[x] + Cardinality(Recording(x)) + Credit(x)
    BY DEF MailInv
  <2>2. Recording(x) = {}
    BY <1>1 DEF Recording
  <2>3. Credit(x) \in Nat
    BY DEF Credit
  <2> QED
    BY <2>2, <2>3, FS_EmptySet
<1> QED
  BY <1>3, <1>4, <1>5 DEF IInv

LEMMA StepKeeps == IInv /\ [Next]_vars => IInv'
<1> SUFFICES ASSUME IInv, [Next]_vars PROVE IInv'
  OBVIOUS
<1>1. ASSUME NEW w \in Workers, Work(w) \/ Crash(w) PROVE IInv'
  BY <1>1, OpenKeeps, ClaimKeeps, CheckKeeps, SendKeeps, RecordKeeps, CrashKeeps DEF Work
<1>2. ASSUME NEW w \in Workers, NEW k \in Kinds, NEW stale \in BOOLEAN, Scan(w, k, stale) PROVE IInv'
  BY <1>2, ScanKeeps
<1>3. ASSUME NEW w \in Workers, NEW s \in Subjects, Report(w, s) PROVE IInv'
  BY <1>3, ReportKeeps
<1>4. ASSUME NEW x \in Streams, LeaseEnds(x) PROVE IInv'
  BY <1>4, LeaseEndsKeeps
<1>5. CASE \/ \E s \in Subjects : Age(s) \/ Change(s)
           \/ ChangeApprovers \/ NextWindow
  BY <1>5, WorldKeeps
<1>6. CASE UNCHANGED vars
  <2>1. ItemInv' /\ OwnInv' /\ ValidInv' /\ MailInv'
    BY <1>6, RunsStand DEF vars, world, Succeeded
  <2> QED
    BY <1>6, <2>1 DEF vars, world, IInv, TypeOK, CondInv, ClaimInv
<1> QED
  BY <1>1, <1>2, <1>3, <1>4, <1>5, <1>6 DEF Next

LEMMA Inductive == Spec => []IInv
BY InitHolds, StepKeeps, PTL DEF Spec

\* The variables keep their types.
THEOREM TypeCorrect == Spec => []TypeOK
<1>1. IInv => TypeOK
  BY DEF IInv
<1> QED
  BY <1>1, Inductive, PTL

\* A recipient gets the mail of one event twice only where a fault kept the first
\* from being recorded, however many runs, retries and leases compete for it: at
\* most one run at a time may record, and none after a success
\* (evaluate-alerts.ts:495, the fenced completions of V20260729050000).
THEOREM DuplicatesAreExplained == Spec => []DuplicatesExplained
<1>1. IInv => DuplicatesExplained
  <2>1. SUFFICES ASSUME IInv, NEW x \in Streams
                 PROVE  \A kept : kept = {w \in Workers : run[w].pc = "record" /\ Stream(w) = x
                                                             /\ ~Fence(w)}
                          => mails[x] <= 1 + unrecorded[x] + Cardinality(kept)
    BY DEF DuplicatesExplained
  <2> TAKE kept
  <2> HAVE kept = {w \in Workers : run[w].pc = "record" /\ Stream(w) = x /\ ~Fence(w)}
  <2>2. IsFiniteSet(Recording(x)) /\ IsFiniteSet(kept)
        /\ Cardinality(Recording(x)) \in Nat /\ Cardinality(kept) \in Nat
    BY AlertAssumption, FS_Subset, FS_CardinalityType DEF Recording
  <2>3. mails[x] \in Nat /\ unrecorded[x] \in Nat
        /\ mails[x] <= unrecorded[x] + Cardinality(Recording(x)) + Credit(x)
    BY <2>1 DEF IInv, TypeOK, MailInv
  <2>4. CASE Recording(x) = kept
    <3>1. Credit(x) \in {0, 1}
      BY DEF Credit
    <3> QED
      BY <2>2, <2>3, <2>4, <3>1
  <2>5. CASE Recording(x) # kept
    <3>1. PICK w \in Workers : run[w].pc = "record" /\ Stream(w) = x /\ Fence(w)
      BY <2>5 DEF Recording
    <3>2. RunInv(w) /\ run[w].pc \in Busy
      BY <2>1, <3>1 DEF IInv, ItemInv, Busy
    <3>3. ~Succeeded(x) /\ run[w].attempt = Len(journal[x])
      BY <2>1, <3>1, <3>2, FenceHolds DEF IInv
    <3>4. \A v \in Workers : v # w /\ run[v].pc = "record" /\ Stream(v) = x => ~Fence(v)
      <4>1. SUFFICES ASSUME NEW v \in Workers, v # w, run[v].pc = "record", Stream(v) = x, Fence(v)
                     PROVE  FALSE
        OBVIOUS
      <4>2. run[v].attempt = Len(journal[x])
        BY <4>1 DEF Fence
      <4> QED
        BY <2>1, <3>1, <3>2, <3>3, <4>1, <4>2 DEF IInv, OwnInv, Busy
    <3>5. Recording(x) = kept \cup {w} /\ w \notin kept
      BY <3>1, <3>4 DEF Recording
    <3>6. Credit(x) = 0
      BY <3>3 DEF Credit
    <3>7. Cardinality(Recording(x)) = Cardinality(kept) + 1
      BY <2>2, <3>5, FS_AddElement
    <3> QED
      BY <2>2, <2>3, <3>6, <3>7
  <2> QED
    BY <2>4, <2>5
<1> QED
  BY <1>1, Inductive, PTL

\* A reminder or an escalation that is sent was checked after it was claimed: its
\* request was pending, and who is reminded was an approver, whatever the run had
\* scanned before (evaluate-alerts.ts:434).
THEOREM RemindersAreJustified == Spec => []RemindersJustified
<1>1. IInv => RemindersJustified
  BY DEF IInv, ItemInv, RunInv, ValidInv, ValidRun, Fitting, RemindersJustified, Busy
<1> QED
  BY <1>1, Inductive, PTL

\* The event of an invitation is fired while the invitation it names is overdue
\* and unaccepted, however old the scan of the run (evaluate-alerts.ts:987).
THEOREM InvitationsAreDue == Spec => InvitationsDueWhenFired
<1> DEFINE Due == \A e \in events' \ events : kind[e.key.of] = "invite" =>
                    Breached(e.key.of) /\ Current(e.key.of, e.key.mark)
<1>1. IInv /\ [Next]_vars => [Due]_vars
  <2>1. SUFFICES ASSUME IInv, [Next]_vars, NEW e \in events' \ events,
                        kind[e.key.of] = "invite"
                 PROVE  Breached(e.key.of) /\ Current(e.key.of, e.key.mark)
    OBVIOUS
  <2>2. PICK w \in Workers : Open(w)
    BY <2>1 DEF Next, vars, world, Work, Claim, Check, Send, Record, Crash, Scan, Report,
         LeaseEnds, Age, Change, ChangeApprovers, NextWindow, Others
  <2>3. PICK it \in run[w].todo :
          StillDue(it) /\ events' = events \cup {[key |-> it.key, gen |-> it.gen]}
    BY <2>1, <2>2 DEF Open
  <2>4. e.key = it.key
    BY <2>1, <2>3
  <2>5. Sound(it)
    BY <2>1 DEF IInv, ItemInv, RunInv
  <2> QED
    BY <2>1, <2>3, <2>4, <2>5 DEF StillDue, Sound
<1> QED
  BY <1>1, Inductive, PTL DEF Spec, InvitationsDueWhenFired
===============================================================================
