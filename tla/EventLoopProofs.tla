-------------------------- MODULE EventLoopProofs --------------------------
(***************************************************************************)
(* Proofs about module EventLoop, for any set of descriptors and rules.    *)
(*                                                                         *)
(* The invariant follows the two lists through one call of                 *)
(* wait_next_event(): while pollfds is built its k-th entry is that of the *)
(* k-th rule (SetUpMatches); in the dispatch loop the entries that are     *)
(* left are those of the rules that are left, and only rules without an    *)
(* entry follow them (DispatchMatches).  What poll(2) reported is old by   *)
(* the time it is used; HangupsLast says what of it is still true.         *)
(***************************************************************************)
EXTENDS EventLoop, SequenceTheorems, TLAPS

\* p is the entry made for rule r.
EntryOf(p, r) == p.rule = r.id /\ p.fd = r.fd /\ p.direction = r.direction

DistinctRules ==
  \A j, k \in DOMAIN rules : rules[j].id = rules[k].id => j = k

\* Outside of a call its local variables are gone; inside it has not
\* returned.
LocalsAreLocal ==
  /\ it >= 1 /\ idx >= 1
  /\ pc = "idle" => it = 1 /\ idx = 1 /\ pollfds = <<>>
  /\ pc # "idle" => result = "none"

SetUpMatches ==
  pc \in {"setup", "poll"} =>
    /\ idx = 1
    /\ Len(pollfds) = it - 1 /\ it <= Len(rules) + 1
    /\ pc = "poll" => it = Len(rules) + 1
    /\ \A k \in DOMAIN pollfds : EntryOf(pollfds[k], rules[k]) /\ ~Fires(pollfds[k])

DispatchMatches ==
  pc = "dispatch" =>
    /\ Len(rules) - it >= Len(pollfds) - idx
    /\ \A k \in idx..Len(pollfds) : EntryOf(pollfds[k], rules[it + (k - idx)])

\* The flags of an FDWrapper: a closed descriptor was released, and if _eof
\* was not set by close() then everything was read.
Ended(s) == s.inq = 0 /\ s.peer # "open"

FlagsOK(s) ==
  /\ s.closed => s.released
  /\ s.eof /\ ~s.closed => Ended(s)

EofIsTheEnd == \A f \in Fd : FlagsOK(file[f])

HungUp(s) == s.peer \in {"gone", "reset"}

\* A hangup reported by poll(2) lasts, and if it came alone there is nothing
\* left to read.
HangupsLast ==
  pc = "dispatch" =>
    \A k \in DOMAIN pollfds :
      LET p == pollfds[k] IN
      /\ p.hup => HungUp(file[p.fd])
      /\ Defunct(p) /\ p.direction = "In" => file[p.fd].inq = 0

IInv ==
  /\ TypeOK
  /\ DistinctRules
  /\ Installed \subseteq added
  /\ CancelledExactlyOnce
  /\ LocalsAreLocal
  /\ SetUpMatches
  /\ DispatchMatches
  /\ EofIsTheEnd
  /\ HangupsLast
-----------------------------------------------------------------------------
(***************************************************************************)
(* The list of rules.                                                      *)
(***************************************************************************)

\* Erasing a rule moves the ones behind it up by one.
LEMMA ErasedRules ==
  ASSUME rules \in Seq(Rule), it \in DOMAIN rules
  PROVE  /\ Erased \in Seq(Rule)
         /\ Len(Erased) = Len(rules) - 1
         /\ \A k \in 1..Len(Erased) :
              Erased[k] = IF k < it THEN rules[k] ELSE rules[k + 1]
<1> DEFINE before == SubSeq(rules, 1, it - 1)
           after == SubSeq(rules, it + 1, Len(rules))
<1>1. it \in 1..Len(rules) /\ Len(rules) \in Nat
  BY LenProperties
<1>2. /\ before \in Seq(Rule)
      /\ Len(before) = it - 1
      /\ \A k \in 1..(it - 1) : before[k] = rules[k]
  <2>1. \A k \in 1..(it - 1) : rules[k] \in Rule
    BY <1>1, ElementOfSeq
  <2> QED
    BY <1>1, <2>1, SubSeqProperties
<1>3. /\ after \in Seq(Rule)
      /\ Len(after) = Len(rules) - it
      /\ \A k \in 1..(Len(rules) - it) : after[k] = rules[it + k]
  <2>1. \A k \in (it + 1)..Len(rules) : rules[k] \in Rule
    BY <1>1, ElementOfSeq
  <2> QED
    BY <1>1, <2>1, SubSeqProperties
<1>4. Erased = before \o after
  BY DEF Erased, RemoveAt
<1> HIDE DEF before, after
<1>5. /\ Erased \in Seq(Rule)
      /\ Len(Erased) = Len(rules) - 1
      /\ \A k \in 1..Len(Erased) :
           Erased[k] = IF k <= it - 1 THEN before[k] ELSE after[k - (it - 1)]
  <2>1. /\ Erased \in Seq(Rule)
        /\ Len(Erased) = Len(before) + Len(after)
        /\ \A k \in 1..(Len(before) + Len(after)) :
             Erased[k] = IF k <= Len(before) THEN before[k] ELSE after[k - Len(before)]
    BY <1>2, <1>3, <1>4, ConcatProperties
  <2>2. Len(Erased) = Len(rules) - 1
    BY <1>1, <1>2, <1>3, <2>1
  <2> QED
    BY <1>2, <2>1, <2>2
<1> SUFFICES ASSUME NEW k \in 1..Len(Erased)
             PROVE  Erased[k] = IF k < it THEN rules[k] ELSE rules[k + 1]
  BY <1>5
<1>6. CASE k < it
  BY <1>1, <1>2, <1>5, <1>6
<1>7. CASE k >= it
  <2>1. k - (it - 1) \in 1..(Len(rules) - it)
    BY <1>1, <1>5, <1>7
  <2>2. it + (k - (it - 1)) = k + 1 /\ ~(k <= it - 1) /\ ~(k < it)
    BY <1>1, <1>5, <1>7
  <2>3. after[k - (it - 1)] = rules[it + (k - (it - 1))]
    BY <1>3, <2>1
  <2>4. Erased[k] = after[k - (it - 1)]
    BY <1>5, <2>2
  <2> QED
    BY <2>2, <2>3, <2>4
<1> QED
  BY <1>1, <1>6, <1>7

\* What a callback leaves of a list of rules: the same rules in the same
\* places, and behind them at most one new one.
LEMMA ReconfiguredRules ==
  ASSUME IInv, NEW list \in Seq(Rule), Reconfigure(list),
         \A k \in DOMAIN list : list[k].id \in Installed,
         \A j, k \in DOMAIN list : list[j].id = list[k].id => j = k
  PROVE  /\ rules' \in Seq(Rule)
         /\ Len(rules') >= Len(list)
         /\ \A k \in 1..Len(list) : rules'[k] = list[k]
         /\ DistinctRules'
         /\ Installed' = {list[k].id : k \in DOMAIN list} \cup (added' \ added)
         /\ added \subseteq added' /\ added' \subseteq RuleId
         /\ interest' \in [RuleId -> BOOLEAN]
<1>1. CASE rules' = list /\ added' = added
  <2>1. interest' \in [RuleId -> BOOLEAN]
    BY DEF Reconfigure, IInv, TypeOK
  <2>2. Installed' = {list[k].id : k \in DOMAIN list}
    BY <1>1 DEF Installed
  <2> QED
    BY <1>1, <2>1, <2>2, LenProperties DEF DistinctRules, IInv, TypeOK
<1>2. CASE \E r \in Offered :
             /\ r.id \in Unused
             /\ rules' = Added(list, r)
             /\ interest' = [interest EXCEPT ![r.id] = TRUE]
             /\ added' = added \cup {r.id}
  <2>1. PICK r \in Offered :
             /\ r.id \in Unused
             /\ rules' = Added(list, r)
             /\ interest' = [interest EXCEPT ![r.id] = TRUE]
             /\ added' = added \cup {r.id}
    BY <1>2
  <2>2. r \in Rule /\ r.id \in RuleId /\ r.id \notin added /\ r.id \notin Installed
    BY <2>1, EventLoopAssumption DEF Unused, IInv
  <2>3. rules' = Append(list, r)
    BY <2>1 DEF Added
  <2>4. /\ rules' \in Seq(Rule)
        /\ Len(rules') = Len(list) + 1
        /\ \A k \in 1..Len(list) : rules'[k] = list[k]
        /\ rules'[Len(list) + 1] = r
    BY <2>2, <2>3, AppendProperties
  <2>5. DOMAIN rules' = 1..(Len(list) + 1) /\ DOMAIN list = 1..Len(list) /\ Len(list) \in Nat
    BY <2>4, LenProperties
  <2>6. DistinctRules'
    BY <2>2, <2>4, <2>5 DEF DistinctRules
  <2>7. Installed' = {list[k].id : k \in DOMAIN list} \cup {r.id}
    BY <2>4, <2>5 DEF Installed
  <2>8. /\ interest' \in [RuleId -> BOOLEAN]
        /\ added' \ added = {r.id} /\ added \subseteq added' /\ added' \subseteq RuleId
    BY <2>1, <2>2 DEF IInv, TypeOK
  <2> QED
    BY <2>4, <2>5, <2>6, <2>7, <2>8
<1> QED
  BY <1>1, <1>2 DEF Reconfigure
-----------------------------------------------------------------------------
(***************************************************************************)
(* The descriptors.                                                        *)
(***************************************************************************)

\* What any step does to the descriptors: a peer that is gone stays away, and
\* where everything was read nothing more comes.
FilesAdvance ==
  /\ file' \in [Fd -> File]
  /\ \A f \in Fd : /\ HungUp(file[f]) => HungUp(file'[f])
                   /\ Ended(file[f]) => Ended(file'[f])
  /\ EofIsTheEnd'

\* A step that leaves the descriptors alone is fine with them.
LEMMA FilesUnchanged ==
  ASSUME IInv, UNCHANGED file
  PROVE  FilesAdvance
  BY DEF FilesAdvance, IInv, TypeOK, EofIsTheEnd

\* Closing descriptors, on top of a change to one of them.
LEMMA ClosedFiles ==
  ASSUME IInv, NEW f \in Fd, NEW s \in File, NEW fs \in SUBSET Fd,
         HungUp(file[f]) => HungUp(s),
         Ended(file[f]) => Ended(s),
         FlagsOK(s),
         file' = Close([file EXCEPT ![f] = s], fs)
  PROVE  FilesAdvance
<1> DEFINE new == [file EXCEPT ![f] = s]
           shut(g) == [new[g] EXCEPT !.released = TRUE, !.eof = TRUE, !.closed = TRUE]
<1>1. /\ new \in [Fd -> File]
      /\ \A g \in Fd : new[g] = IF g = f THEN s ELSE file[g]
  BY DEF IInv, TypeOK
<1>2. \A g \in Fd : /\ HungUp(file[g]) => HungUp(new[g])
                    /\ Ended(file[g]) => Ended(new[g])
                    /\ FlagsOK(new[g])
  BY <1>1 DEF IInv, EofIsTheEnd
<1> HIDE DEF new
<1>3. \A g \in Fd : file'[g] = IF g \in fs THEN shut(g) ELSE new[g]
  BY DEF Close, new
<1>4. \A g \in Fd : /\ shut(g) \in File
                    /\ shut(g).inq = new[g].inq /\ shut(g).peer = new[g].peer
                    /\ shut(g).closed /\ shut(g).released
  BY <1>1 DEF File
<1>5. file' = [g \in Fd |-> IF g \in fs THEN shut(g) ELSE new[g]]
  BY DEF Close, new
<1> HIDE DEF shut
<1>6. file' \in [Fd -> File]
  BY <1>1, <1>4, <1>5
<1>7. \A g \in Fd : /\ file'[g].peer = new[g].peer /\ file'[g].inq = new[g].inq
                    /\ FlagsOK(file'[g])
  BY <1>2, <1>3, <1>4 DEF FlagsOK
<1> QED
  BY <1>2, <1>6, <1>7 DEF FilesAdvance, EofIsTheEnd, Ended, HungUp

\* The same, without the change.
LEMMA OnlyClosedFiles ==
  ASSUME IInv, NEW fs \in Closable, file' = Close(file, fs)
  PROVE  FilesAdvance
<1>1. CASE fs = {}
  <2>1. file' = file
    BY <1>1 DEF Close, IInv, TypeOK
  <2> QED
    BY <2>1, FilesUnchanged
<1>2. CASE \E f \in Fd : fs = {f}
  <2>1. PICK f \in Fd : fs = {f}
    BY <1>2
  <2>2. [file EXCEPT ![f] = file[f]] = file /\ file[f] \in File
    BY DEF IInv, TypeOK
  <2> QED
    BY <2>1, <2>2, ClosedFiles DEF IInv, EofIsTheEnd
<1> QED
  BY <1>1, <1>2 DEF Closable

\* A callback that reads or writes leaves a descriptor advanced.
LEMMA ServedFile ==
  ASSUME IInv, NEW f \in Fd, NEW d \in Direction, NEW s \in Serve(f, d)
  PROVE  /\ s \in File
         /\ HungUp(file[f]) => HungUp(s)
         /\ Ended(file[f]) => Ended(s)
         /\ FlagsOK(s)
<1>1. file[f] \in File /\ FlagsOK(file[f])
  BY DEF IInv, TypeOK, EofIsTheEnd
<1>2. ~file[f].released
  BY DEF Serve
<1>3. CASE d = "In" /\ file[f].inq > 0
  <2>1. s = [file[f] EXCEPT !.inq = @ - 1]
    BY <1>1, <1>2, <1>3 DEF Serve, File
  <2>2. file[f].inq - 1 \in Nat
    BY <1>1, <1>3 DEF File
  <2>3. /\ s \in File /\ s.peer = file[f].peer /\ s.eof = file[f].eof
        /\ s.closed = file[f].closed /\ s.released = file[f].released
    BY <1>1, <2>1, <2>2 DEF File
  <2> QED
    BY <1>1, <1>3, <2>3 DEF Ended, File, FlagsOK, HungUp
<1>4. CASE d = "In" /\ file[f].inq = 0
  <2>1. s = [file[f] EXCEPT !.eof = TRUE] /\ file[f].peer # "open"
    BY <1>1, <1>2, <1>4 DEF Serve
  <2>2. /\ s \in File /\ s.peer = file[f].peer /\ s.inq = file[f].inq
        /\ s.closed = file[f].closed /\ s.released = file[f].released
    BY <1>1, <2>1 DEF File
  <2> QED
    BY <1>1, <1>4, <2>1, <2>2 DEF Ended, FlagsOK, HungUp
<1>5. CASE d = "Out"
  <2>1. s \in {file[f], [file[f] EXCEPT !.space = FALSE]}
    BY <1>1, <1>2, <1>5 DEF Serve
  <2>2. /\ s \in File /\ s.peer = file[f].peer /\ s.inq = file[f].inq
        /\ s.eof = file[f].eof /\ s.closed = file[f].closed /\ s.released = file[f].released
    BY <1>1, <2>1 DEF File
  <2> QED
    BY <1>1, <2>2 DEF Ended, FlagsOK, HungUp
<1>6. file[f].inq \in Nat
  BY <1>1 DEF File
<1> QED
  BY <1>1, <1>3, <1>4, <1>5, <1>6 DEF Direction
-----------------------------------------------------------------------------
(***************************************************************************)
(* The rules after a cancel() or a callback.                               *)
(***************************************************************************)

\* cancel() was called once for the rules that have left, for no other.
CancelsFit ==
  /\ Installed \subseteq added
  /\ \A id \in RuleId : cancels[id] = IF id \in added \ Installed THEN 1 ELSE 0

\* The parts of the invariant that are about the rules only, unless a cancel()
\* has thrown.
RulesOK ==
  /\ rules \in Seq(Rule)
  /\ interest \in [RuleId -> BOOLEAN]
  /\ cancels \in [RuleId -> Nat]
  /\ added \subseteq RuleId
  /\ DistinctRules
  /\ CancelsFit

\* As long as nothing has thrown the rules are in order.
LEMMA RulesAreOK ==
  ASSUME IInv, result # "threw"
  PROVE  RulesOK
<1>1. Installed \subseteq RuleId
  BY DEF IInv, TypeOK
<1>2. \A id \in RuleId : cancels[id] \in Nat
  BY DEF IInv, TypeOK
<1>3. CancelsFit
  BY <1>1, <1>2 DEF CancelsFit, IInv, CancelledExactlyOnce, Unused
<1> QED
  BY <1>3 DEF RulesOK, IInv, TypeOK

\* Rules in order were cancelled as they should.
LEMMA CancelsAreFit ==
  ASSUME RulesOK'
  PROVE  (Installed \subseteq added)' /\ CancelledExactlyOnce'
  BY DEF RulesOK, CancelsFit, CancelledExactlyOnce, Unused

\* In a call, or outside as long as the loop is not over, nothing has thrown.
LEMMA NotThrown ==
  ASSUME IInv, pc # "idle" \/ ~Over
  PROVE  result # "threw"
  BY DEF IInv, LocalsAreLocal, Over

\* A callback or a cancel() is entered in the history.
LEMMA RanGrows ==
  ASSUME IInv, NEW id \in RuleId, NEW by \in {"callback", "cancel"},
         ran' = Append(ran, Run(id, by))
  PROVE  ran' \in Seq(RunOf)
<1>1. Run(id, by) \in RunOf
  BY DEF Run, RunOf
<1> QED
  BY <1>1, AppendProperties DEF IInv, TypeOK

\* Erasing a rule and cancelling it: the rules behind it move up, and what
\* cancel() adds comes last.
LEMMA CancelledRules ==
  ASSUME IInv, it \in DOMAIN rules, result # "threw", Cancels(rules[it]), CancelRule
  PROVE  /\ RulesOK'
         /\ ran' \in Seq(RunOf)
         /\ FilesAdvance
         /\ Len(rules') >= Len(rules) - 1
         /\ \A k \in 1..(Len(rules) - 1) :
              rules'[k] = IF k < it THEN rules[k] ELSE rules[k + 1]
<1>1. rules \in Seq(Rule) /\ DOMAIN rules = 1..Len(rules) /\ Len(rules) \in Nat
  BY LenProperties DEF IInv, TypeOK
<1>2. /\ Erased \in Seq(Rule)
      /\ Len(Erased) = Len(rules) - 1
      /\ \A k \in 1..Len(Erased) :
           Erased[k] = IF k < it THEN rules[k] ELSE rules[k + 1]
  BY <1>1, ErasedRules
<1>3. DOMAIN Erased = 1..(Len(rules) - 1)
  BY <1>2, LenProperties
<1>4. \A k \in DOMAIN Erased : Erased[k].id \in Installed /\ Erased[k].id # rules[it].id
  <2> SUFFICES ASSUME NEW k \in DOMAIN Erased
               PROVE  Erased[k].id \in Installed /\ Erased[k].id # rules[it].id
    OBVIOUS
  <2> DEFINE up == IF k < it THEN k ELSE k + 1
  <2>1. up \in DOMAIN rules /\ up # it /\ Erased[k] = rules[up]
    BY <1>1, <1>2, <1>3
  <2> HIDE DEF up
  <2>2. rules[up].id \in Installed
    BY <2>1 DEF Installed
  <2>3. rules[up].id # rules[it].id
    BY <2>1 DEF IInv, DistinctRules
  <2> QED
    BY <2>1, <2>2, <2>3
<1>5. \A j, k \in DOMAIN Erased : Erased[j].id = Erased[k].id => j = k
  <2> SUFFICES ASSUME NEW j \in DOMAIN Erased, NEW k \in DOMAIN Erased,
                      Erased[j].id = Erased[k].id
               PROVE  j = k
    OBVIOUS
  <2> DEFINE up(i) == IF i < it THEN i ELSE i + 1
  <2>1. /\ up(j) \in DOMAIN rules /\ Erased[j] = rules[up(j)]
        /\ up(k) \in DOMAIN rules /\ Erased[k] = rules[up(k)]
    BY <1>1, <1>2, <1>3
  <2>2. up(j) = up(k)
    BY <2>1 DEF IInv, DistinctRules
  <2> QED
    BY <1>1, <1>3, <2>2
<1>6. Reconfigure(Erased) /\ cancels' = [cancels EXCEPT ![rules[it].id] = @ + 1]
  BY DEF CancelRule, Cancels
<1>7. /\ rules' \in Seq(Rule)
      /\ Len(rules') >= Len(Erased)
      /\ \A k \in 1..Len(Erased) : rules'[k] = Erased[k]
      /\ DistinctRules'
      /\ Installed' = {Erased[k].id : k \in DOMAIN Erased} \cup (added' \ added)
      /\ added \subseteq added' /\ added' \subseteq RuleId
      /\ interest' \in [RuleId -> BOOLEAN]
  BY <1>2, <1>4, <1>5, <1>6, ReconfiguredRules
<1>8. rules[it].id \in RuleId /\ rules[it].id \in Installed
  <2>1. rules[it] \in Rule
    BY <1>1, ElementOfSeq
  <2>2. rules[it].id \in RuleId
    BY <2>1 DEF Rule
  <2> QED
    BY <2>2 DEF Installed
<1>9. cancels' \in [RuleId -> Nat]
  BY <1>6, <1>8 DEF IInv, TypeOK
<1>10. {Erased[k].id : k \in DOMAIN Erased} = Installed \ {rules[it].id}
  <2>1. ASSUME NEW j \in DOMAIN rules, rules[j].id # rules[it].id
        PROVE  \E k \in DOMAIN Erased : Erased[k].id = rules[j].id
    <3> DEFINE k == IF j < it THEN j ELSE j - 1
    <3>1. j # it
      BY <2>1
    <3>2. k \in DOMAIN Erased /\ (IF k < it THEN rules[k] ELSE rules[k + 1]) = rules[j]
      BY <1>1, <1>3, <3>1
    <3> HIDE DEF k
    <3> QED
      BY <1>2, <1>3, <3>2
  <2> QED
    BY <1>4, <2>1 DEF Installed
<1>11. CancelsFit'
  <2>1. /\ Installed \subseteq added
        /\ \A id \in RuleId : cancels[id] = IF id \in added \ Installed THEN 1 ELSE 0
    BY RulesAreOK DEF RulesOK, CancelsFit
  <2>2. Installed' = (Installed \ {rules[it].id}) \cup (added' \ added)
    BY <1>7, <1>10
  <2>3. ASSUME NEW id \in RuleId
        PROVE  cancels'[id] = IF id \in added' \ Installed' THEN 1 ELSE 0
    <3>1. CASE id = rules[it].id
      <4>1. cancels'[id] = cancels[id] + 1 /\ cancels[id] = 0
        BY <1>6, <1>8, <2>1, <3>1 DEF IInv, TypeOK
      <4>2. id \in added' /\ id \notin Installed'
        BY <1>7, <1>8, <2>1, <2>2, <3>1
      <4> QED
        BY <4>1, <4>2
    <3>2. CASE id # rules[it].id
      <4>1. cancels'[id] = cancels[id]
        BY <1>6, <1>8, <3>2 DEF IInv, TypeOK
      <4>2. id \in added' \ Installed' <=> id \in added \ Installed
        BY <1>7, <2>1, <2>2, <3>2
      <4> QED
        BY <2>1, <4>1, <4>2
    <3> QED
      BY <3>1, <3>2
  <2>4. Installed' \subseteq added'
    BY <1>7, <2>1, <2>2
  <2> QED
    BY <2>3, <2>4 DEF CancelsFit
<1>12. FilesAdvance
  BY OnlyClosedFiles DEF CancelRule
<1>13. ran' \in Seq(RunOf)
  BY <1>8, RanGrows DEF Cancels
<1> QED
  BY <1>2, <1>7, <1>9, <1>11, <1>12, <1>13 DEF RulesOK

\* A callback that adds a rule leaves the earlier ones in their places.
LEMMA RulesAfterCallback ==
  ASSUME IInv, result # "threw", Reconfigure(rules), UNCHANGED cancels
  PROVE  /\ RulesOK'
         /\ Len(rules') >= Len(rules)
         /\ \A k \in 1..Len(rules) : rules'[k] = rules[k]
<1>1. rules \in Seq(Rule) /\ \A k \in DOMAIN rules : rules[k].id \in Installed
  BY DEF IInv, TypeOK, Installed
<1>2. \A j, k \in DOMAIN rules : rules[j].id = rules[k].id => j = k
  BY DEF IInv, DistinctRules
<1>3. /\ rules' \in Seq(Rule)
      /\ Len(rules') >= Len(rules)
      /\ \A k \in 1..Len(rules) : rules'[k] = rules[k]
      /\ DistinctRules'
      /\ Installed' = {rules[k].id : k \in DOMAIN rules} \cup (added' \ added)
      /\ added \subseteq added' /\ added' \subseteq RuleId
      /\ interest' \in [RuleId -> BOOLEAN]
  BY <1>1, <1>2, ReconfiguredRules
<1>4. cancels' \in [RuleId -> Nat]
  BY DEF IInv, TypeOK
<1>5. CancelsFit'
  <2>1. /\ Installed \subseteq added
        /\ \A id \in RuleId : cancels[id] = IF id \in added \ Installed THEN 1 ELSE 0
    BY RulesAreOK DEF RulesOK, CancelsFit
  <2>2. Installed' = Installed \cup (added' \ added)
    BY <1>3 DEF Installed
  <2>3. \A id \in RuleId : id \in added' \ Installed' <=> id \in added \ Installed
    BY <1>3, <2>1, <2>2
  <2>4. Installed' \subseteq added'
    BY <1>3, <2>1, <2>2
  <2> QED
    BY <2>1, <2>3, <2>4 DEF CancelsFit
<1> QED
  BY <1>3, <1>4, <1>5 DEF RulesOK

\* A step that leaves the rules alone is fine with them.
LEMMA RulesUnchanged ==
  ASSUME IInv, result # "threw", UNCHANGED <<rules, interest, added, cancels>>
  PROVE  RulesOK'
  BY RulesAreOK DEF RulesOK, DistinctRules, CancelsFit, Installed
-----------------------------------------------------------------------------
(***************************************************************************)
(* What the steps have in common.                                          *)
(***************************************************************************)

\* wait_next_event() returns, or throws.
LEMMA ReturnStep ==
  ASSUME IInv, RulesOK', FilesAdvance,
         NEW v \in {"none", "Success", "Timeout", "Exit", "threw"}, Return(v),
         ran' \in Seq(RunOf)
  PROVE  IInv'
<1>1. pc' = "idle" /\ result' = v /\ it' = 1 /\ idx' = 1 /\ pollfds' = <<>>
  BY DEF Return
<1>2. TypeOK'
  BY <1>1 DEF TypeOK, RulesOK, FilesAdvance
<1>3. LocalsAreLocal'
  BY <1>1 DEF LocalsAreLocal
<1>4. SetUpMatches' /\ DispatchMatches' /\ HangupsLast'
  BY <1>1 DEF SetUpMatches, DispatchMatches, HangupsLast
<1> QED
  BY <1>2, <1>3, <1>4, CancelsAreFit DEF IInv, RulesOK, FilesAdvance

\* The facts about the polled descriptors outlive any step.
LEMMA HangupsStillLast ==
  ASSUME IInv, FilesAdvance, UNCHANGED pollfds, pc = "dispatch"
  PROVE  HangupsLast'
<1> SUFFICES ASSUME NEW k \in DOMAIN pollfds
             PROVE  LET p == pollfds[k] IN
                    /\ p.hup => HungUp(file'[p.fd])
                    /\ Defunct(p) /\ p.direction = "In" => file'[p.fd].inq = 0
  BY DEF HangupsLast, Defunct, poll_ready, HungUp
<1> DEFINE p == pollfds[k]
<1>1. p \in PollFd
  BY ElementOfSeq, LenProperties DEF IInv, TypeOK
<1>2. /\ p.hup => HungUp(file[p.fd])
      /\ Defunct(p) /\ p.direction = "In" => file[p.fd].inq = 0
  BY DEF IInv, HangupsLast
<1>3. p.fd \in Fd
  BY <1>1 DEF PollFd
<1> HIDE DEF p
<1>4. Defunct(p) /\ p.direction = "In" => Ended(file[p.fd])
  BY <1>2 DEF Defunct, Ended, HungUp
<1> QED
  BY <1>2, <1>3, <1>4 DEF FilesAdvance, Ended, p

\* Only the descriptors change.
LEMMA FileStep ==
  ASSUME IInv, FilesAdvance,
         UNCHANGED <<rules, interest, pc, it, idx, pollfds, result, added, cancels, ran>>
  PROVE  IInv'
<1>1. DistinctRules' /\ (Installed \subseteq added)' /\ CancelledExactlyOnce'
  BY DEF IInv, DistinctRules, CancelledExactlyOnce, Installed, Unused
<1>2. TypeOK'
  BY DEF IInv, TypeOK, FilesAdvance
<1>3. LocalsAreLocal' /\ SetUpMatches' /\ DispatchMatches'
  BY DEF IInv, LocalsAreLocal, SetUpMatches, DispatchMatches, EntryOf, Fires
<1>4. HangupsLast'
  <2>1. CASE pc = "dispatch"
    BY <2>1, HangupsStillLast
  <2>2. CASE pc # "dispatch"
    BY <2>2 DEF HangupsLast
  <2> QED
    BY <2>1, <2>2
<1> QED
  BY <1>1, <1>2, <1>3, <1>4 DEF IInv, FilesAdvance

\* cancel() throws: the rule it stands at has been told, once, and stays.
LEMMA CancelThrowsStep ==
  ASSUME IInv, pc # "idle", it \in DOMAIN rules, Cancels(rules[it]), CancelThrows
  PROVE  IInv'
<1> DEFINE id == rules[it].id
<1>1. RulesOK /\ FilesAdvance
  BY NotThrown, RulesAreOK, FilesUnchanged DEF CancelThrows
<1>2. id \in RuleId /\ id \in Installed
  <2>1. rules[it] \in Rule
    BY LenProperties, ElementOfSeq DEF IInv, TypeOK
  <2> QED
    BY <2>1 DEF Rule, Installed
<1> HIDE DEF id
<1>3. /\ pc' = "idle" /\ result' = "threw" /\ it' = 1 /\ idx' = 1 /\ pollfds' = <<>>
      /\ UNCHANGED <<file, rules, interest, added>>
      /\ cancels' = [cancels EXCEPT ![id] = @ + 1]
  BY DEF CancelThrows, Return, Cancels, id
<1>4. ran' \in Seq(RunOf)
  BY <1>2, RanGrows DEF Cancels, id
<1>5. cancels' \in [RuleId -> Nat]
  BY <1>2, <1>3 DEF IInv, TypeOK
<1>6. TypeOK'
  BY <1>1, <1>3, <1>4, <1>5, EmptySeq DEF TypeOK, RulesOK, FilesAdvance
<1>7. CancelledExactlyOnce'
  <2>1. \A i \in RuleId : cancels'[i] = IF i = id THEN cancels[i] + 1 ELSE cancels[i]
    BY <1>2, <1>3 DEF IInv, TypeOK
  <2>2. /\ Installed \subseteq added /\ added \subseteq RuleId
        /\ \A i \in RuleId : cancels[i] = IF i \in added \ Installed THEN 1 ELSE 0
    BY <1>1 DEF RulesOK, CancelsFit
  <2>3. Installed' = Installed /\ added' = added
    BY <1>3 DEF Installed
  <2> QED
    BY <1>2, <1>3, <2>1, <2>2, <2>3 DEF CancelledExactlyOnce, Unused
<1>8. DistinctRules' /\ (Installed \subseteq added)'
  BY <1>3 DEF IInv, DistinctRules, Installed
<1>9. LocalsAreLocal' /\ SetUpMatches' /\ DispatchMatches' /\ HangupsLast'
  BY <1>3 DEF LocalsAreLocal, SetUpMatches, DispatchMatches, HangupsLast
<1> QED
  BY <1>1, <1>6, <1>7, <1>8, <1>9 DEF IInv, FilesAdvance

\* The dispatch loop goes on, with the next rule (++it) or with the one that
\* has moved up into the place of an erased rule.
Advanced ==
  \/ /\ it' = it + 1
     /\ Len(rules') >= Len(rules)
     /\ \A k \in 1..Len(rules) : rules'[k] = rules[k]
  \/ /\ it' = it
     /\ Len(rules') >= Len(rules) - 1
     /\ \A k \in 1..(Len(rules) - 1) :
          rules'[k] = IF k < it THEN rules[k] ELSE rules[k + 1]

\* The dispatch loop goes on to the next rule and the next entry.
LEMMA AdvanceStep ==
  ASSUME IInv, RulesOK', FilesAdvance, pc = "dispatch", it \in DOMAIN rules,
         Advanced, idx' = idx + 1, UNCHANGED <<pc, pollfds, result>>,
         ran' \in Seq(RunOf)
  PROVE  IInv'
<1>1. /\ it \in Nat /\ it' \in Nat /\ idx \in Nat /\ idx' \in Nat
      /\ it >= 1 /\ it' >= 1 /\ idx >= 1 /\ idx' >= 1
      /\ Len(rules) \in Nat /\ Len(rules') \in Nat /\ it <= Len(rules)
      /\ Len(pollfds) \in Nat /\ DOMAIN pollfds = 1..Len(pollfds)
  BY LenProperties DEF IInv, TypeOK, RulesOK, LocalsAreLocal, Advanced
<1>2. TypeOK'
  BY <1>1 DEF IInv, TypeOK, FilesAdvance, RulesOK
<1>3. LocalsAreLocal' /\ SetUpMatches'
  BY <1>1 DEF IInv, LocalsAreLocal, SetUpMatches
<1>4. DispatchMatches'
  <2>1. /\ Len(rules) - it >= Len(pollfds) - idx
        /\ \A k \in idx..Len(pollfds) : EntryOf(pollfds[k], rules[it + (k - idx)])
    BY DEF IInv, DispatchMatches
  <2>2. Len(rules') - it' >= Len(pollfds) - idx'
    BY <1>1, <2>1 DEF Advanced
  <2>3. ASSUME NEW k \in idx'..Len(pollfds)
        PROVE  rules'[it' + (k - idx')] = rules[it + (k - idx)]
    <3> DEFINE n == it + (k - idx)
    <3>1. k \in Nat /\ n \in Nat /\ n > it /\ n <= Len(rules)
      BY <1>1, <2>1
    <3>2. CASE it' = it + 1 /\ \A i \in 1..Len(rules) : rules'[i] = rules[i]
      <4>1. n \in 1..Len(rules)
        BY <1>1, <3>1
      <4>2. it' = it + 1
        BY <3>2
      <4>3. it' + (k - idx') = n
        BY <1>1, <3>1, <4>2
      <4> QED
        BY <3>2, <4>1, <4>3
    <3>3. CASE /\ it' = it
               /\ \A i \in 1..(Len(rules) - 1) :
                    rules'[i] = IF i < it THEN rules[i] ELSE rules[i + 1]
      <4>1. it' + (k - idx') = n - 1 /\ n - 1 \in 1..(Len(rules) - 1)
            /\ ~(n - 1 < it) /\ (n - 1) + 1 = n
        BY <1>1, <3>1, <3>3
      <4> HIDE DEF n
      <4>2. rules'[n - 1] = rules[(n - 1) + 1]
        BY <3>3, <4>1
      <4> QED
        BY <4>1, <4>2 DEF n
    <3> QED
      BY <3>2, <3>3 DEF Advanced
  <2>4. \A k \in idx'..Len(pollfds) : EntryOf(pollfds[k], rules'[it' + (k - idx')])
    <3> SUFFICES ASSUME NEW k \in idx'..Len(pollfds)
                 PROVE  EntryOf(pollfds[k], rules'[it' + (k - idx')])
      OBVIOUS
    <3>1. k \in idx..Len(pollfds)
      BY <1>1
    <3>2. EntryOf(pollfds[k], rules[it + (k - idx)])
      BY <2>1, <3>1
    <3> QED
      BY <2>3, <3>2
  <2> QED
    BY <2>2, <2>4 DEF DispatchMatches, EntryOf
<1>5. HangupsLast'
  BY HangupsStillLast
<1> QED
  BY <1>2, <1>3, <1>4, <1>5, CancelsAreFit DEF IInv, RulesOK, FilesAdvance
-----------------------------------------------------------------------------
(***************************************************************************)
(* The steps of wait_next_event().                                         *)
(***************************************************************************)
LEMMA CallIInv ==
  ASSUME IInv, wait_next_event
  PROVE  IInv'
<1> USE DEF wait_next_event
<1>1. RulesOK' /\ FilesAdvance
  BY NotThrown, RulesUnchanged, FilesUnchanged
<1>2. /\ pc' = "setup" /\ it' = 1 /\ idx' = 1 /\ pollfds' = <<>> /\ result' = "none"
  BY DEF IInv, LocalsAreLocal
<1>3. TypeOK'
  BY <1>1, <1>2 DEF IInv, TypeOK, FilesAdvance, RulesOK
<1>4. LocalsAreLocal' /\ DispatchMatches' /\ HangupsLast'
  BY <1>2 DEF LocalsAreLocal, DispatchMatches, HangupsLast
<1>5. SetUpMatches'
  <2>1. Len(rules') \in Nat /\ Len(pollfds') = 0 /\ DOMAIN pollfds' = {}
    BY <1>1, <1>2, LenProperties, EmptySeq DEF RulesOK
  <2> QED
    BY <1>2, <2>1 DEF SetUpMatches
<1> QED
  BY <1>1, <1>3, <1>4, <1>5, CancelsAreFit DEF IInv, RulesOK, FilesAdvance

\* The set-up loop cancels a rule, or makes its entry.
LEMMA SetUpRuleIInv ==
  ASSUME IInv, SetUpRule
  PROVE  IInv'
<1>1. pc = "setup" /\ it \in DOMAIN rules
  BY DEF SetUpRule
<1>2. /\ it \in Nat /\ it >= 1 /\ it <= Len(rules) /\ idx = 1
      /\ Len(rules) \in Nat /\ DOMAIN rules = 1..Len(rules)
      /\ Len(pollfds) = it - 1 /\ DOMAIN pollfds = 1..(it - 1)
      /\ pollfds \in Seq(PollFd)
  BY <1>1, LenProperties DEF IInv, TypeOK, SetUpMatches
<1>3. \A k \in DOMAIN pollfds : EntryOf(pollfds[k], rules[k]) /\ ~Fires(pollfds[k])
  BY <1>1 DEF IInv, SetUpMatches
<1>4. CASE Cancels(rules[it]) /\ CancelRule /\ UNCHANGED idx
  <2>1. /\ RulesOK'
        /\ ran' \in Seq(RunOf)
        /\ FilesAdvance
        /\ Len(rules') >= Len(rules) - 1
        /\ \A k \in 1..(Len(rules) - 1) :
             rules'[k] = IF k < it THEN rules[k] ELSE rules[k + 1]
    BY <1>1, <1>4, NotThrown, CancelledRules
  <2>2. UNCHANGED <<pc, it, idx, pollfds, result>>
    BY <1>4 DEF CancelRule
  <2>3. TypeOK'
    BY <2>1, <2>2 DEF IInv, TypeOK, FilesAdvance, RulesOK
  <2>4. LocalsAreLocal' /\ DispatchMatches' /\ HangupsLast'
    BY <1>1, <2>2 DEF IInv, LocalsAreLocal, DispatchMatches, HangupsLast
  <2>5. Len(rules') \in Nat
    BY <2>1, LenProperties DEF RulesOK
  <2>6. \A k \in DOMAIN pollfds : rules'[k] = rules[k]
    BY <1>2, <2>1
  <2>7. SetUpMatches'
    BY <1>1, <1>2, <1>3, <2>1, <2>2, <2>5, <2>6 DEF SetUpMatches, EntryOf, Fires
  <2> QED
    BY <2>1, <2>3, <2>4, <2>7, CancelsAreFit DEF IInv, RulesOK, FilesAdvance
<1>5. CASE /\ pollfds' = pollfds \o Entry(rules[it])
           /\ it' = it + 1
           /\ UNCHANGED <<file, rules, interest, pc, idx, result, added, cancels, ran>>
  <2>1. RulesOK' /\ FilesAdvance
    BY <1>1, <1>5, NotThrown, RulesUnchanged, FilesUnchanged
  <2> DEFINE p == NewPollFd(rules[it])
  <2>2. rules[it] \in Rule
    BY <1>1, <1>2, ElementOfSeq DEF IInv, TypeOK
  <2>3. interest[rules[it].id] \in BOOLEAN
    BY <2>2 DEF Rule, IInv, TypeOK
  <2>4. p \in PollFd /\ EntryOf(p, rules[it]) /\ ~Fires(p)
    BY <2>2, <2>3 DEF NewPollFd, PollFd, Rule, EntryOf, Fires
  <2> HIDE DEF p
  <2>5. pollfds' = pollfds \o <<p>>
    BY <1>5 DEF Entry, p
  <2>6. /\ pollfds' \in Seq(PollFd)
        /\ Len(pollfds') = it
        /\ \A k \in 1..(it - 1) : pollfds'[k] = pollfds[k]
        /\ pollfds'[it] = p
    <3>1. pollfds' = Append(pollfds, p)
      BY <1>2, <2>4, <2>5, AppendIsConcat
    <3>2. (it - 1) + 1 = it
      BY <1>2
    <3> QED
      BY <1>2, <2>4, <3>1, <3>2, AppendProperties
  <2>7. DOMAIN pollfds' = 1..it
    BY <2>6, LenProperties
  <2>8. TypeOK'
    BY <1>2, <1>5, <2>1, <2>6 DEF IInv, TypeOK, FilesAdvance, RulesOK
  <2>9. LocalsAreLocal' /\ DispatchMatches' /\ HangupsLast'
    BY <1>1, <1>2, <1>5 DEF IInv, LocalsAreLocal, DispatchMatches, HangupsLast
  <2>10. \A k \in DOMAIN pollfds' : EntryOf(pollfds'[k], rules[k]) /\ ~Fires(pollfds'[k])
    <3> SUFFICES ASSUME NEW k \in 1..it
                 PROVE  EntryOf(pollfds'[k], rules[k]) /\ ~Fires(pollfds'[k])
      BY <2>7
    <3>1. CASE k = it
      BY <2>4, <2>6, <3>1
    <3>2. CASE k # it
      <4>1. k \in 1..(it - 1)
        BY <1>2, <3>2
      <4> QED
        BY <1>2, <1>3, <2>6, <4>1
    <3> QED
      BY <3>1, <3>2
  <2>11. SetUpMatches'
    <3>1. /\ pc' = "setup" /\ idx' = 1
          /\ Len(pollfds') = it' - 1 /\ it' <= Len(rules') + 1
      BY <1>1, <1>2, <1>5, <2>6
    <3>2. \A k \in DOMAIN pollfds' : EntryOf(pollfds'[k], rules'[k]) /\ ~Fires(pollfds'[k])
      BY <1>5, <2>10
    <3> QED
      BY <3>1, <3>2 DEF SetUpMatches, EntryOf, Fires
  <2> QED
    BY <2>1, <2>8, <2>9, <2>11, CancelsAreFit DEF IInv, RulesOK, FilesAdvance
<1>6. CASE Cancels(rules[it]) /\ CancelThrows
  BY <1>1, <1>6, CancelThrowsStep
<1> QED
  BY <1>4, <1>5, <1>6 DEF SetUpRule

\* The set-up loop ends.
LEMMA SetUpDoneIInv ==
  ASSUME IInv, SetUpDone
  PROVE  IInv'
<1>1. RulesOK' /\ FilesAdvance
  BY NotThrown, RulesUnchanged, FilesUnchanged DEF SetUpDone
<1>2. ran' \in Seq(RunOf)
  BY DEF SetUpDone, IInv, TypeOK
<1>3. CASE Return("Exit")
  BY <1>1, <1>2, <1>3, ReturnStep
<1>4. CASE pc' = "poll" /\ UNCHANGED <<it, idx, pollfds, result>>
  <2>1. pc = "setup" /\ it \notin DOMAIN rules /\ UNCHANGED rules
    BY DEF SetUpDone
  <2>2. TypeOK'
    BY <1>1, <1>2, <1>4 DEF IInv, TypeOK, FilesAdvance, RulesOK
  <2>3. LocalsAreLocal' /\ DispatchMatches' /\ HangupsLast'
    BY <1>4, <2>1 DEF IInv, LocalsAreLocal, DispatchMatches, HangupsLast
  <2>4. it = Len(rules) + 1
    BY <2>1, LenProperties DEF IInv, TypeOK, LocalsAreLocal, SetUpMatches
  <2>5. SetUpMatches'
    BY <1>4, <2>1, <2>4 DEF IInv, SetUpMatches, EntryOf, Fires
  <2> QED
    BY <1>1, <2>2, <2>3, <2>5, CancelsAreFit DEF IInv, RulesOK, FilesAdvance
<1> QED
  BY <1>3, <1>4 DEF SetUpDone

\* poll(2) reports: the entries keep their places, and one of them fires.
LEMMA PollReadyIInv ==
  ASSUME IInv, PollReady
  PROVE  IInv'
<1>1. RulesOK' /\ FilesAdvance
  BY NotThrown, RulesUnchanged, FilesUnchanged DEF PollReady
<1>2. /\ pc = "poll" /\ pc' = "dispatch" /\ it' = 1 /\ idx' = 1
      /\ pollfds' = [k \in DOMAIN pollfds |-> Polled(pollfds[k])]
      /\ UNCHANGED <<file, rules, interest, result, added, cancels, ran>>
  BY DEF PollReady
<1>3. /\ pollfds \in Seq(PollFd) /\ Len(pollfds) \in Nat
      /\ DOMAIN pollfds = 1..Len(pollfds)
      /\ Len(rules) \in Nat /\ Len(pollfds) = Len(rules)
  BY <1>2, LenProperties DEF IInv, TypeOK, SetUpMatches
<1>4. \A k \in DOMAIN pollfds :
        LET p == pollfds[k] q == Polled(p) IN
        /\ q \in PollFd
        /\ EntryOf(q, rules[k])
        /\ q.hup => HungUp(file[q.fd])
        /\ Defunct(q) /\ q.direction = "In" => file[q.fd].inq = 0
  <2> SUFFICES ASSUME NEW k \in DOMAIN pollfds
               PROVE  LET p == pollfds[k] q == Polled(p) IN
                      /\ q \in PollFd
                      /\ EntryOf(q, rules[k])
                      /\ q.hup => HungUp(file[q.fd])
                      /\ Defunct(q) /\ q.direction = "In" => file[q.fd].inq = 0
    OBVIOUS
  <2> DEFINE p == pollfds[k]
             q == Polled(p)
  <2>1. p \in PollFd /\ EntryOf(p, rules[k])
    BY <1>2, <1>3, ElementOfSeq DEF IInv, SetUpMatches
  <2> HIDE DEF p
  <2>2. p.fd \in Fd /\ file[p.fd] \in File
    BY <2>1 DEF PollFd, IInv, TypeOK
  <2>3. Ready(p.fd, p.direction) \in BOOLEAN
    BY <2>2 DEF Ready, Readable, File
  <2>4. /\ q.rule = p.rule /\ q.fd = p.fd /\ q.direction = p.direction
        /\ q.asked = p.asked
        /\ q.ready = (~file[p.fd].released /\ p.asked /\ Ready(p.fd, p.direction))
        /\ q.hup = (~file[p.fd].released /\ file[p.fd].peer = "gone")
        /\ q.err = (file[p.fd].released \/ file[p.fd].peer = "reset")
        /\ q \in PollFd
    BY <2>1, <2>2, <2>3 DEF Polled, PollFd, File
  <2> HIDE DEF q
  <2>5. q.hup => HungUp(file[q.fd])
    BY <2>4 DEF HungUp
  <2>6. Defunct(q) /\ q.direction = "In" => file[q.fd].inq = 0
    BY <2>2, <2>4, EventLoopAssumption DEF Defunct, poll_ready, Ready, Readable, File
  <2>7. EntryOf(q, rules[k])
    BY <2>1, <2>4 DEF EntryOf
  <2> QED
    BY <2>4, <2>5, <2>6, <2>7 DEF p, q
<1>5. /\ pollfds' \in Seq(PollFd) /\ Len(pollfds') = Len(pollfds)
      /\ DOMAIN pollfds' = DOMAIN pollfds
      /\ \A k \in DOMAIN pollfds : pollfds'[k] = Polled(pollfds[k])
  <2>1. pollfds' \in Seq(PollFd)
    BY <1>2, <1>3, <1>4, IsASeq
  <2> QED
    BY <1>2, <1>3, <2>1, LenProperties
<1>6. TypeOK'
  BY <1>1, <1>2, <1>5 DEF IInv, TypeOK, FilesAdvance, RulesOK
<1>7. LocalsAreLocal' /\ SetUpMatches'
  BY <1>2 DEF IInv, LocalsAreLocal, SetUpMatches
<1>8. DispatchMatches'
  <2>1. Len(rules') - it' >= Len(pollfds') - idx'
    BY <1>2, <1>3, <1>5
  <2>2. \A k \in idx'..Len(pollfds') : EntryOf(pollfds'[k], rules'[it' + (k - idx')])
    <3> SUFFICES ASSUME NEW k \in 1..Len(pollfds)
                 PROVE  EntryOf(pollfds'[k], rules[1 + (k - 1)])
      BY <1>2, <1>5
    <3>1. 1 + (k - 1) = k
      OBVIOUS
    <3> QED
      BY <1>3, <1>4, <1>5, <3>1
  <2> QED
    BY <2>1, <2>2 DEF DispatchMatches, EntryOf
<1>9. HangupsLast'
  BY <1>2, <1>4, <1>5 DEF HangupsLast, Defunct, poll_ready, HungUp
<1> QED
  BY <1>1, <1>6, <1>7, <1>8, <1>9, CancelsAreFit DEF IInv, RulesOK, FilesAdvance

\* poll(2) fails: the dispatch loop reads entries that report nothing.
LEMMA PollFailsIInv ==
  ASSUME IInv, PollFails
  PROVE  IInv'
<1>1. RulesOK' /\ FilesAdvance
  BY NotThrown, RulesUnchanged, FilesUnchanged DEF PollFails
<1>2. /\ pc = "poll" /\ pc' = "dispatch" /\ it' = 1 /\ idx' = 1
      /\ UNCHANGED <<file, rules, interest, pollfds, result, added, cancels, ran>>
  BY DEF PollFails
<1>3. /\ Len(pollfds) \in Nat /\ DOMAIN pollfds = 1..Len(pollfds)
      /\ Len(rules) \in Nat /\ Len(pollfds) = Len(rules)
      /\ \A k \in DOMAIN pollfds : EntryOf(pollfds[k], rules[k]) /\ ~Fires(pollfds[k])
  BY <1>2, LenProperties DEF IInv, TypeOK, SetUpMatches
<1>4. TypeOK'
  BY <1>1, <1>2 DEF IInv, TypeOK, FilesAdvance, RulesOK
<1>5. LocalsAreLocal' /\ SetUpMatches'
  BY <1>2 DEF IInv, LocalsAreLocal, SetUpMatches
<1>6. DispatchMatches'
  <2>1. Len(rules') - it' >= Len(pollfds') - idx'
    BY <1>2, <1>3
  <2>2. \A k \in idx'..Len(pollfds') : EntryOf(pollfds'[k], rules'[it' + (k - idx')])
    <3> SUFFICES ASSUME NEW k \in 1..Len(pollfds)
                 PROVE  EntryOf(pollfds[k], rules[1 + (k - 1)])
      BY <1>2
    <3>1. 1 + (k - 1) = k
      OBVIOUS
    <3> QED
      BY <1>3, <3>1
  <2> QED
    BY <2>1, <2>2 DEF DispatchMatches, EntryOf
<1>7. HangupsLast'
  BY <1>2, <1>3 DEF HangupsLast, Defunct, poll_ready, Fires
<1> QED
  BY <1>1, <1>4, <1>5, <1>6, <1>7, CancelsAreFit DEF IInv, RulesOK, FilesAdvance

\* Timeout, Exit and the end of the dispatch loop.
LEMMA ReturnsIInv ==
  ASSUME IInv, PollTimesOut \/ PollInterrupted \/ DispatchDone
  PROVE  IInv'
<1>1. /\ UNCHANGED <<file, rules, interest, added, cancels>>
      /\ ran' = ran \/ ran' = <<>>
      /\ Return("Timeout") \/ Return("Exit") \/ Return("Success")
      /\ pc # "idle"
  BY DEF PollTimesOut, PollInterrupted, DispatchDone
<1>2. RulesOK' /\ FilesAdvance
  BY <1>1, NotThrown, RulesUnchanged, FilesUnchanged
<1>3. ran' \in Seq(RunOf)
  BY <1>1, EmptySeq DEF IInv, TypeOK
<1> QED
  BY <1>1, <1>2, <1>3, ReturnStep

\* A callback, in the dispatch loop.
LEMMA CallbackIInv ==
  ASSUME IInv, pc = "dispatch", it \in DOMAIN rules, Callback(rules[it])
  PROVE  IInv'
<1> DEFINE r == rules[it]
<1>1. r \in Rule
  BY LenProperties, ElementOfSeq DEF IInv, TypeOK
<1> HIDE DEF r
<1>2. /\ ran' = Append(ran, Run(r.id, "callback"))
      /\ UNCHANGED cancels /\ result # "threw"
      /\ CallbackServes(r) \/ CallbackThrows \/ CallbackSkips(r)
  BY NotThrown DEF Callback, r
<1>3. ran' \in Seq(RunOf)
  BY <1>1, <1>2, RanGrows DEF Rule
<1>4. ASSUME RulesOK', FilesAdvance, Reconfigure(rules), NextRule
      PROVE  IInv'
  <2>1. /\ Len(rules') >= Len(rules)
        /\ \A k \in 1..Len(rules) : rules'[k] = rules[k]
    BY <1>2, <1>4, RulesAfterCallback
  <2>2. Advanced /\ idx' = idx + 1 /\ UNCHANGED <<pc, pollfds, result>>
    BY <1>4, <2>1 DEF Advanced, NextRule
  <2> QED
    BY <1>2, <1>3, <1>4, <2>2, AdvanceStep
<1>5. CASE CallbackServes(r)
  <2>1. PICK s \in Serve(r.fd, r.direction), fs \in Closable :
          file' = Close([file EXCEPT ![r.fd] = s], fs)
    BY <1>5 DEF CallbackServes
  <2>2. r.fd \in Fd /\ r.direction \in Direction /\ fs \in SUBSET Fd
    BY <1>1 DEF Rule, Closable
  <2>3. FilesAdvance
    <3>1. /\ s \in File
          /\ HungUp(file[r.fd]) => HungUp(s)
          /\ Ended(file[r.fd]) => Ended(s)
          /\ FlagsOK(s)
      BY <2>2, ServedFile
    <3> QED
      BY <2>1, <2>2, <3>1, ClosedFiles
  <2>4. RulesOK' /\ Reconfigure(rules) /\ NextRule
    BY <1>2, <1>5, RulesAfterCallback DEF CallbackServes
  <2> QED
    BY <1>4, <2>3, <2>4
<1>6. CASE CallbackThrows
  <2>1. RulesOK' /\ FilesAdvance
    BY <1>2, <1>6, RulesUnchanged, FilesUnchanged DEF CallbackThrows
  <2> QED
    BY <1>3, <1>6, <2>1, ReturnStep DEF CallbackThrows
<1>7. CASE CallbackSkips(r)
  <2>1. RulesOK' /\ FilesAdvance /\ Reconfigure(rules)
    BY <1>2, <1>7, RulesAfterCallback, OnlyClosedFiles DEF CallbackSkips
  <2>2. CASE NextRule
    BY <1>4, <2>1, <2>2
  <2>3. CASE Return("threw")
    BY <1>3, <2>1, <2>3, ReturnStep
  <2> QED
    BY <1>7, <2>2, <2>3 DEF CallbackSkips
<1> QED
  BY <1>2, <1>5, <1>6, <1>7

\* One turn of the dispatch loop.
LEMMA DispatchRuleIInv ==
  ASSUME IInv, DispatchRule
  PROVE  IInv'
<1>1. pc = "dispatch" /\ it \in DOMAIN rules
  BY DEF DispatchRule
<1>2. PICK p \in Entries :
       \/ /\ p.err
          /\ Return("threw")
          /\ UNCHANGED <<file, rules, interest, added, cancels, ran>>
       \/ /\ ~p.err /\ Defunct(p)
          /\ Cancels(rules[it])
          /\ (CancelRule /\ idx' = idx + 1) \/ CancelThrows
       \/ /\ ~p.err /\ poll_ready(p)
          /\ Callback(rules[it])
       \/ /\ ~p.err /\ ~Defunct(p) /\ ~poll_ready(p)
          /\ NextRule
          /\ UNCHANGED <<file, rules, interest, added, cancels, ran>>
  BY DEF DispatchRule
<1>3. ran \in Seq(RunOf) /\ result # "threw"
  BY <1>1, NotThrown DEF IInv, TypeOK
<1>4. CASE /\ Return("threw")
           /\ UNCHANGED <<file, rules, interest, added, cancels, ran>>
  <2>1. RulesOK' /\ FilesAdvance
    BY <1>3, <1>4, RulesUnchanged, FilesUnchanged
  <2> QED
    BY <1>3, <1>4, <2>1, ReturnStep
<1>5. CASE Cancels(rules[it]) /\ CancelRule /\ idx' = idx + 1
  <2>1. /\ RulesOK' /\ FilesAdvance /\ ran' \in Seq(RunOf)
        /\ Len(rules') >= Len(rules) - 1
        /\ \A k \in 1..(Len(rules) - 1) :
             rules'[k] = IF k < it THEN rules[k] ELSE rules[k + 1]
    BY <1>1, <1>3, <1>5, CancelledRules
  <2>2. UNCHANGED <<pc, it, pollfds, result>>
    BY <1>5 DEF CancelRule
  <2>3. Advanced
    BY <2>1, <2>2 DEF Advanced
  <2> QED
    BY <1>1, <1>3, <1>5, <2>1, <2>2, <2>3, AdvanceStep
<1>6. CASE Callback(rules[it])
  BY <1>1, <1>6, CallbackIInv
<1>7. CASE /\ ~p.err /\ ~Defunct(p) /\ ~poll_ready(p)
           /\ NextRule
           /\ UNCHANGED <<file, rules, interest, added, cancels, ran>>
  <2>1. RulesOK' /\ FilesAdvance
    BY <1>3, <1>7, RulesUnchanged, FilesUnchanged
  <2>2. Advanced /\ idx' = idx + 1 /\ UNCHANGED <<pc, pollfds, result>>
    BY <1>7, LenProperties DEF NextRule, Advanced, IInv, TypeOK
  <2> QED
    BY <1>1, <1>3, <1>7, <2>1, <2>2, AdvanceStep
<1>8. CASE Cancels(rules[it]) /\ CancelThrows
  BY <1>1, <1>8, CancelThrowsStep
<1> QED
  BY <1>2, <1>4, <1>5, <1>6, <1>7, <1>8
-----------------------------------------------------------------------------
(***************************************************************************)
(* The steps of the application, the kernel and the peers.                 *)
(***************************************************************************)

\* Between two calls the application changes the rules.
LEMMA ApplicationIInv ==
  ASSUME IInv, pc = "idle", RulesOK', FilesAdvance,
         UNCHANGED <<pc, it, idx, pollfds, result, ran>>
  PROVE  IInv'
<1>1. TypeOK'
  BY DEF IInv, TypeOK, FilesAdvance, RulesOK
<1>2. /\ LocalsAreLocal' /\ SetUpMatches' /\ DispatchMatches'
      /\ HangupsLast'
  BY DEF IInv, LocalsAreLocal, SetUpMatches, DispatchMatches, HangupsLast
<1> QED
  BY <1>1, <1>2, CancelsAreFit DEF IInv, RulesOK, FilesAdvance

\* The application adds a rule between two calls, as a callback might.
LEMMA AddRuleIInv ==
  ASSUME IInv, NEW r \in Offered, add_rule(r)
  PROVE  IInv'
<1>1. FilesAdvance /\ result # "threw"
  BY FilesUnchanged, NotThrown DEF add_rule
<1>2. Reconfigure(rules) /\ UNCHANGED cancels
  BY DEF Reconfigure, add_rule
<1>3. RulesOK'
  BY <1>1, <1>2, RulesAfterCallback
<1> QED
  BY <1>1, <1>3, ApplicationIInv DEF add_rule

\* The application changes what a rule is interested in.
LEMMA ChangeInterestIInv ==
  ASSUME IInv, NEW id \in RuleId, ChangeInterest(id)
  PROVE  IInv'
<1>1. FilesAdvance /\ result # "threw"
  BY FilesUnchanged, NotThrown DEF ChangeInterest
<1>2. Reconfigure(rules) /\ UNCHANGED cancels
  BY DEF Reconfigure, ChangeInterest
<1>3. RulesOK'
  BY <1>1, <1>2, RulesAfterCallback
<1> QED
  BY <1>1, <1>3, ApplicationIInv DEF ChangeInterest

\* The application closes a descriptor, or tries to.
LEMMA CloseFdIInv ==
  ASSUME IInv, NEW f \in Fd, CloseFd(f) \/ CloseFdFails(f)
  PROVE  IInv'
<1>1. CASE CloseFd(f)
  <2>1. FilesAdvance
    BY <1>1, OnlyClosedFiles DEF CloseFd, Closable
  <2> QED
    BY <1>1, <2>1, FileStep DEF CloseFd
<1>2. CASE CloseFdFails(f)
  <2> DEFINE s == file[f]
             new == [s EXCEPT !.released = TRUE]
  <2>1. s \in File /\ FlagsOK(s)
    BY DEF IInv, TypeOK, EofIsTheEnd
  <2>2. file' = [file EXCEPT ![f] = new]
    BY <1>2 DEF CloseFdFails
  <2> HIDE DEF s
  <2>3. /\ new \in File /\ new.released
        /\ new.inq = s.inq /\ new.peer = s.peer /\ new.eof = s.eof /\ new.closed = s.closed
    BY <2>1 DEF File
  <2> HIDE DEF new
  <2>4. /\ HungUp(s) => HungUp(new)
        /\ Ended(s) => Ended(new)
        /\ FlagsOK(new)
    BY <2>1, <2>3 DEF HungUp, Ended, FlagsOK
  <2>5. file' = Close([file EXCEPT ![f] = new], {})
    BY <2>2 DEF Close, IInv, TypeOK
  <2>6. FilesAdvance
    BY <2>3, <2>4, <2>5, ClosedFiles DEF s
  <2> QED
    BY <1>2, <2>6, FileStep DEF CloseFdFails
<1> QED
  BY <1>1, <1>2

\* The kernel and the peers never take back what they have reported for good.
LEMMA KernelIInv ==
  ASSUME IInv, NEW f \in Fd,
         Arrive(f) \/ PeerEnds(f) \/ PeerGoes(f) \/ PeerResets(f) \/ PeerDrains(f)
  PROVE  IInv'
<1> DEFINE s == file[f]
<1>1. s \in File /\ FlagsOK(s)
  BY DEF IInv, TypeOK, EofIsTheEnd
<1> HIDE DEF s
<1>2. PICK new : /\ Change(f, new)
                 /\ new \in File
                 /\ HungUp(s) => HungUp(new)
                 /\ Ended(s) => Ended(new)
                 /\ FlagsOK(new)
  <2>1. CASE Arrive(f)
    <3> DEFINE new == [s EXCEPT !.inq = @ + 1]
    <3>1. s.peer = "open" /\ Change(f, new)
      BY <2>1 DEF Arrive, s
    <3>2. s.inq + 1 \in Nat
      BY <1>1 DEF File
    <3>3. /\ new \in File /\ new.peer = s.peer /\ new.released = s.released
          /\ new.eof = s.eof /\ new.closed = s.closed
      BY <1>1, <3>2 DEF File
    <3> HIDE DEF new
    <3> QED
      BY <1>1, <3>1, <3>3 DEF Ended, FlagsOK, HungUp
  <2>2. ASSUME NEW p \in {"ended", "gone", "reset"}, Change(f, [s EXCEPT !.peer = p]),
               s.peer = "open" \/ p \in {"gone", "reset"}
        PROVE  \E new : /\ Change(f, new)
                        /\ new \in File
                        /\ HungUp(s) => HungUp(new)
                        /\ Ended(s) => Ended(new)
                        /\ FlagsOK(new)
    <3> DEFINE new == [s EXCEPT !.peer = p]
    <3>1. /\ new \in File /\ new.inq = s.inq /\ new.released = s.released
          /\ new.eof = s.eof /\ new.closed = s.closed /\ new.peer = p
      BY <1>1 DEF File
    <3>2. Change(f, new)
      BY <2>2
    <3> HIDE DEF new
    <3>3. /\ HungUp(s) => HungUp(new)
          /\ Ended(s) => Ended(new)
          /\ FlagsOK(new)
      BY <1>1, <2>2, <3>1 DEF Ended, FlagsOK, HungUp
    <3> QED
      BY <3>1, <3>2, <3>3
  <2>3. CASE PeerEnds(f)
    BY <2>2, <2>3 DEF PeerEnds, s
  <2>4. CASE PeerGoes(f)
    BY <2>2, <2>4 DEF PeerGoes, s
  <2>5. CASE PeerResets(f)
    BY <2>2, <2>5 DEF PeerResets, s
  <2>6. CASE PeerDrains(f)
    <3> DEFINE new == [s EXCEPT !.space = TRUE]
    <3>1. Change(f, new)
      BY <2>6 DEF PeerDrains, s
    <3>2. /\ new \in File /\ new.inq = s.inq /\ new.released = s.released
          /\ new.eof = s.eof /\ new.closed = s.closed /\ new.peer = s.peer
      BY <1>1 DEF File
    <3> HIDE DEF new
    <3> QED
      BY <1>1, <3>1, <3>2 DEF Ended, FlagsOK, HungUp
  <2> QED
    BY <2>1, <2>3, <2>4, <2>5, <2>6
<1>3. file' = [file EXCEPT ![f] = new]
  BY <1>2 DEF Change
<1>4. file' = Close([file EXCEPT ![f] = new], {})
  BY <1>2, <1>3 DEF Close, IInv, TypeOK
<1>5. FilesAdvance
  BY <1>2, <1>4, ClosedFiles DEF s
<1> QED
  BY <1>2, <1>5, FileStep DEF Change
-----------------------------------------------------------------------------
(***************************************************************************)
(* The invariant.                                                          *)
(***************************************************************************)
LEMMA InitIInv == Init => IInv
<1> SUFFICES ASSUME Init PROVE IInv
  OBVIOUS
<1> USE DEF Init
<1>1. file \in [Fd -> File]
  BY DEF File
<1>2. cancels \in [RuleId -> Nat] /\ interest \in [RuleId -> BOOLEAN]
  OBVIOUS
<1>3. /\ rules \in Seq(Rule) /\ pollfds \in Seq(PollFd) /\ ran \in Seq(RunOf)
      /\ DOMAIN rules = {}
  BY EmptySeq
<1>4. TypeOK
  BY <1>1, <1>2, <1>3 DEF TypeOK
<1>5. DistinctRules /\ LocalsAreLocal
  BY <1>3 DEF DistinctRules, LocalsAreLocal
<1>6. Installed = {}
  BY <1>3 DEF Installed
<1>7. Installed \subseteq added /\ CancelledExactlyOnce
  BY <1>6 DEF CancelledExactlyOnce, Unused
<1>8. EofIsTheEnd
  BY DEF EofIsTheEnd, FlagsOK
<1>9. SetUpMatches /\ DispatchMatches /\ HangupsLast
  BY DEF SetUpMatches, DispatchMatches, HangupsLast
<1> QED
  BY <1>4, <1>5, <1>7, <1>8, <1>9 DEF IInv

\* Every step of the loop, of the application and of the peers keeps IInv.
LEMMA NextIInv == IInv /\ [Next]_vars => IInv'
<1> SUFFICES ASSUME IInv, [Next]_vars PROVE IInv'
  OBVIOUS
<1>1. CASE wait_next_event
  BY <1>1, CallIInv
<1>2. CASE SetUpRule
  BY <1>2, SetUpRuleIInv
<1>3. CASE SetUpDone
  BY <1>3, SetUpDoneIInv
<1>4. CASE PollReady
  BY <1>4, PollReadyIInv
<1>5. CASE PollFails
  BY <1>5, PollFailsIInv
<1>6. CASE PollTimesOut \/ PollInterrupted \/ DispatchDone
  BY <1>6, ReturnsIInv
<1>7. CASE DispatchRule
  BY <1>7, DispatchRuleIInv
<1>8. CASE \E r \in Offered : add_rule(r)
  BY <1>8, AddRuleIInv
<1>9. CASE \E f \in Fd : CloseFd(f) \/ CloseFdFails(f)
  BY <1>9, CloseFdIInv
<1>10. CASE \E id \in RuleId : ChangeInterest(id)
  BY <1>10, ChangeInterestIInv
<1>11. CASE \E f \in Fd : \/ Arrive(f) \/ PeerEnds(f) \/ PeerGoes(f)
                          \/ PeerResets(f) \/ PeerDrains(f)
  BY <1>11, KernelIInv
<1>12. CASE UNCHANGED vars
  BY <1>12, FileStep, FilesUnchanged DEF vars
<1> QED
  BY <1>1, <1>2, <1>3, <1>4, <1>5, <1>6, <1>7, <1>8, <1>9, <1>10, <1>11, <1>12
  DEF Next, Loop

\* IInv holds throughout.
LEMMA Invariance == Spec => []IInv
  BY InitIInv, NextIInv, PTL DEF Spec
-----------------------------------------------------------------------------
(***************************************************************************)
(* What follows from it.                                                   *)
(***************************************************************************)

\* The types of the loop's state.
THEOREM TypeCorrect == Spec => []TypeOK
<1>1. IInv => TypeOK
  BY DEF IInv
<1> QED
  BY <1>1, Invariance, PTL

\* it and idx never get out of step, whatever rules are erased from under
\* the dispatch loop or added by its callbacks.
THEOREM ListsStayInStep == Spec => []EntriesMatchRules
<1>1. IInv => EntriesMatchRules
  <2> SUFFICES ASSUME IInv, pc = "dispatch"
               PROVE  /\ Len(rules) - it >= Len(pollfds) - idx
                      /\ \A k \in 0..Len(pollfds) :
                           idx + k <= Len(pollfds) => pollfds[idx + k].rule = rules[it + k].id
    BY DEF EntriesMatchRules
  <2>1. /\ Len(rules) - it >= Len(pollfds) - idx
        /\ \A k \in idx..Len(pollfds) : EntryOf(pollfds[k], rules[it + (k - idx)])
    BY DEF IInv, DispatchMatches
  <2>2. idx \in Nat /\ it \in Nat /\ Len(pollfds) \in Nat
    BY LenProperties DEF IInv, TypeOK
  <2>3. ASSUME NEW k \in 0..Len(pollfds), idx + k <= Len(pollfds)
        PROVE  pollfds[idx + k].rule = rules[it + k].id
    <3>1. idx + k \in idx..Len(pollfds) /\ it + ((idx + k) - idx) = it + k
      BY <2>2, <2>3
    <3> QED
      BY <2>1, <3>1 DEF EntryOf
  <2> QED
    BY <2>1, <2>3
<1> QED
  BY <1>1, Invariance, PTL

\* Of every rule that was ever added: cancel() ran exactly once if it has left
\* _rules, and never if it is there, unless that very cancel() threw.
THEOREM CancelsAreExact == Spec => []CancelledExactlyOnce
<1>1. IInv => CancelledExactlyOnce
  BY DEF IInv
<1> QED
  BY <1>1, Invariance, PTL

\* The entry that the dispatch loop reads is that of the rule it stands at.
LEMMA CurrentEntry ==
  ASSUME IInv, pc = "dispatch", it \in DOMAIN rules, idx \in DOMAIN pollfds
  PROVE  /\ Entries = {pollfds[idx]}
         /\ EntryOf(pollfds[idx], rules[it])
<1>1. /\ idx \in Nat /\ it \in Nat /\ Len(pollfds) \in Nat
      /\ DOMAIN pollfds = 1..Len(pollfds)
  BY LenProperties DEF IInv, TypeOK
<1>2. idx \in idx..Len(pollfds) /\ it + (idx - idx) = it
  BY <1>1
<1>3. EntryOf(pollfds[idx], rules[it + (idx - idx)])
  BY <1>2 DEF IInv, DispatchMatches
<1> QED
  BY <1>2, <1>3 DEF Entries

\* Two lists that end in different calls are different.
LEMMA LastOfRan ==
  ASSUME ran \in Seq(RunOf), NEW a \in RunOf, NEW b \in RunOf,
         Append(ran, a) = Append(ran, b)
  PROVE  a = b
<1>1. Append(ran, a)[Len(ran) + 1] = a /\ Append(ran, b)[Len(ran) + 1] = b
  BY AppendProperties
<1> QED
  BY <1>1

\* A call of a callback makes the history longer.
LEMMA RanIsLonger ==
  ASSUME ran \in Seq(RunOf), NEW a \in RunOf
  PROVE  Append(ran, a) # ran /\ Append(ran, a) # <<>>
<1>1. Len(Append(ran, a)) = Len(ran) + 1 /\ Len(ran) \in Nat
  BY AppendProperties, LenProperties
<1>2. Len(<<>>) = 0
  BY EmptySeq
<1> QED
  BY <1>1, <1>2

\* Of all steps only the dispatch loop's calls a callback.
LEMMA WhoCallsBack ==
  ASSUME IInv, [Next]_vars, NEW id \in RuleId,
         ran' = Append(ran, Run(id, "callback"))
  PROVE  /\ pc = "dispatch" /\ it \in DOMAIN rules /\ rules[it].id = id
         /\ \E p \in Entries : poll_ready(p)
<1>1. Run(id, "callback") \in RunOf /\ ran \in Seq(RunOf)
  BY DEF Run, RunOf, IInv, TypeOK
<1>2. ran' # ran /\ ran' # <<>>
  BY <1>1, RanIsLonger
<1>3. SetUpRule \/ DispatchRule
  BY <1>2 DEF Next, Loop, vars, wait_next_event, SetUpDone, PollReady,
         DispatchDone, PollTimesOut, PollInterrupted, PollFails, add_rule, CloseFd,
         CloseFdFails, ChangeInterest, Arrive, PeerEnds, PeerGoes, PeerResets,
         PeerDrains, Change
<1>4. it \in DOMAIN rules
  BY <1>3 DEF SetUpRule, DispatchRule
<1>5. rules[it].id \in RuleId
  <2>1. rules[it] \in Rule
    BY <1>4, LenProperties, ElementOfSeq DEF IInv, TypeOK
  <2> QED
    BY <2>1 DEF Rule
<1>6. ~Cancels(rules[it])
  <2> SUFFICES ASSUME Cancels(rules[it]) PROVE FALSE
    OBVIOUS
  <2>1. Run(rules[it].id, "cancel") \in RunOf
    BY <1>5 DEF Run, RunOf
  <2>2. Append(ran, Run(rules[it].id, "cancel")) = Append(ran, Run(id, "callback"))
    BY DEF Cancels
  <2>3. Run(rules[it].id, "cancel") = Run(id, "callback")
    BY <1>1, <2>1, <2>2, LastOfRan
  <2> QED
    BY <2>3 DEF Run
<1>7. /\ pc = "dispatch" /\ Callback(rules[it])
      /\ \E p \in Entries : poll_ready(p)
  BY <1>2, <1>3, <1>6 DEF SetUpRule, DispatchRule
<1>8. rules[it].id = id
  <2>1. Run(rules[it].id, "callback") \in RunOf
    BY <1>5 DEF Run, RunOf
  <2>2. Append(ran, Run(rules[it].id, "callback")) = Append(ran, Run(id, "callback"))
    BY <1>7 DEF Callback
  <2>3. Run(rules[it].id, "callback") = Run(id, "callback")
    BY <1>1, <2>1, <2>2, LastOfRan
  <2> QED
    BY <2>3 DEF Run
<1> QED
  BY <1>4, <1>7, <1>8

\* A callback runs only for a rule that poll(2) was asked about in this call
\* and reported ready.
THEOREM CallbacksAreEarned == Spec => CallsAreEarned
<1>1. ASSUME IInv, [Next]_vars, NEW id \in RuleId,
             ran' = Append(ran, Run(id, "callback")), idx \in DOMAIN pollfds
      PROVE  /\ pollfds[idx].rule = id
             /\ pollfds[idx].asked /\ pollfds[idx].ready
  <2>1. /\ pc = "dispatch" /\ it \in DOMAIN rules /\ rules[it].id = id
        /\ \E p \in Entries : poll_ready(p)
    BY <1>1, WhoCallsBack
  <2>2. Entries = {pollfds[idx]} /\ EntryOf(pollfds[idx], rules[it])
    BY <1>1, <2>1, CurrentEntry
  <2> QED
    BY <2>1, <2>2 DEF EntryOf, poll_ready
<1>2. IInv /\ [Next]_vars =>
        [\A id \in RuleId :
           ran' = Append(ran, Run(id, "callback")) /\ idx \in DOMAIN pollfds =>
             /\ pollfds[idx].rule = id
             /\ pollfds[idx].asked /\ pollfds[idx].ready]_vars
  BY <1>1
<1> QED
  BY <1>2, Invariance, PTL DEF Spec, CallsAreEarned

\* Of all steps only the two loops of wait_next_event() cancel.
LEMMA WhoCancels ==
  ASSUME [Next]_vars, cancels' # cancels
  PROVE  /\ it \in DOMAIN rules
         /\ \/ pc = "setup" /\ Finished(rules[it])
            \/ pc = "dispatch" /\ \E p \in Entries : Defunct(p)
<1>1. SetUpRule \/ DispatchRule
  BY DEF Next, Loop, vars, wait_next_event, SetUpDone, PollReady,
         DispatchDone, PollTimesOut, PollInterrupted, PollFails, add_rule, CloseFd,
         CloseFdFails, ChangeInterest, Arrive, PeerEnds, PeerGoes, PeerResets,
         PeerDrains, Change
<1> QED
  BY <1>1 DEF SetUpRule, DispatchRule, Callback

\* A reading rule is cancelled only when there is nothing left to read, now
\* and for ever, or the application has closed its descriptor.
THEOREM CancelsLoseNothing == Spec => CancelLosesNoData
<1> DEFINE f == rules[it].fd
<1>1. ASSUME IInv, [Next]_vars, cancels' # cancels,
             pc = "dispatch" => idx \in DOMAIN pollfds,
             rules[it].direction = "In", ~file[f].released
      PROVE  file[f].inq = 0 /\ file[f].peer # "open"
  <2>1. /\ it \in DOMAIN rules
        /\ \/ pc = "setup" /\ Finished(rules[it])
           \/ pc = "dispatch" /\ \E p \in Entries : Defunct(p)
    BY <1>1, WhoCancels
  <2>2. f \in Fd
    <3>1. rules[it] \in Rule
      BY <1>1, <2>1, LenProperties, ElementOfSeq DEF IInv, TypeOK
    <3> QED
      BY <3>1 DEF Rule
  <2>3. FlagsOK(file[f]) /\ ~file[f].closed
    BY <1>1, <2>2 DEF IInv, EofIsTheEnd, FlagsOK
  <2>4. CASE pc = "setup" /\ Finished(rules[it])
    <3>1. file[f].eof
      BY <2>3, <2>4 DEF Finished
    <3> QED
      BY <2>3, <3>1 DEF FlagsOK, Ended
  <2>5. CASE pc = "dispatch" /\ \E p \in Entries : Defunct(p)
    <3>1. Entries = {pollfds[idx]} /\ EntryOf(pollfds[idx], rules[it])
      BY <1>1, <2>1, <2>5, CurrentEntry
    <3>2. /\ Defunct(pollfds[idx]) /\ pollfds[idx].fd = f
          /\ pollfds[idx].direction = "In"
      BY <1>1, <2>5, <3>1 DEF EntryOf
    <3> QED
      BY <1>1, <2>5, <3>2 DEF IInv, HangupsLast, Defunct, HungUp
  <2> QED
    BY <2>1, <2>4, <2>5
<1>2. IInv /\ [Next]_vars =>
        [\A id \in RuleId :
           cancels'[id] # cancels[id] /\ (pc = "dispatch" => idx \in DOMAIN pollfds) =>
           LET g == rules[it].fd IN
           rules[it].direction = "In" /\ ~file[g].released =>
             file[g].inq = 0 /\ file[g].peer # "open"]_vars
  BY <1>1
<1> QED
  BY <1>2, Invariance, PTL DEF Spec, CancelLosesNoData
=============================================================================
