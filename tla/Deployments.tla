----------------------------- MODULE Deployments -----------------------------
(***************************************************************************)
(* Deployments of one project and which of them is the live one            *)
(* (studio/deploy.py; callers in web/routes.py, agents/deploy_agent.py and *)
(* cli/main.py).  A provider's command may succeed without a URL, and a    *)
(* URL may fail its health check; every attempt is appended to the         *)
(* manifest, and only a good one moves the pointer.  A rollback moves the  *)
(* pointer, never the provider.                                            *)
(*                                                                         *)
(* The manifest is read, changed and written without a lock: attempts of   *)
(* one process do that without a pause, other processes between the two.   *)
(***************************************************************************)
EXTENDS Naturals, Sequences, FiniteSets, SequenceTheorems, WellFoundedInduction, TLAPS

CONSTANTS
    Attempt,      \* attempts to deploy, each with a URL of its own
    Rollback,     \* requests to roll back
    Home,         \* of an attempt or a request: its process
    KeepLast      \* records the manifest keeps

None == "none"
Actor == Attempt \cup Rollback

\* What the constants are: a request does one thing, and a record is kept.
Requests ==
    Attempt \cap Rollback = {} /\ None \notin Attempt /\ KeepLast \in Nat \ {0}

VARIABLES
    checked,   \* deploy_check_enabled
    manifest,  \* [records: a sequence of [id, ok, active, back], live: an id or None]
    copy,      \* of an actor: the manifest it read
    at,        \* of an actor: its place
    result,    \* of an attempt: what is to be recorded
    remote,    \* the attempts whose URL is up
    fit        \* those whose URL passed its check, or needed none

vars == <<checked, manifest, copy, at, result, remote, fit>>

Empty == [records |-> <<>>, live |-> None]

Init ==
    /\ checked \in BOOLEAN /\ manifest = Empty
    /\ copy = [a \in Actor |-> Empty] /\ at = [a \in Actor |-> "new"]
    /\ result = [a \in Attempt |-> "none"] /\ remote = {} /\ fit = {}

Goes(a, from, to) == at[a] = from /\ at' = [at EXCEPT ![a] = to]
Last(s) == IF Len(s) <= KeepLast THEN s ELSE SubSeq(s, Len(s) - KeepLast + 1, Len(s))

-----------------------------------------------------------------------------
\* Not a proven delivery, no plan, no provider, no consent, no token: no attempt.
Refuse(a) ==
    /\ a \in Attempt /\ Goes(a, "new", "over")
    /\ UNCHANGED <<checked, manifest, copy, result, remote, fit>>

\* Nothing was deployed: the provider, its plan, token or command line is missing, or
\* the artifact is not fit to be sent.
Withheld(a) == result' = [result EXCEPT ![a] = "failed"] /\ UNCHANGED remote

\* The artifact is staged and sent: the command succeeds with or without a URL, or
\* fails, or is given up, after the provider has deployed it.
Sent(a) ==
    /\ remote' = remote \cup {a}
    /\ \E r \in {"ok", "failed"} : result' = [result EXCEPT ![a] = r]

\* The provider's command runs.
Execute(a) ==
    /\ a \in Attempt /\ Goes(a, "new", "ran")
    /\ Withheld(a) \/ Sent(a)
    /\ UNCHANGED <<checked, manifest, copy, fit>>

\* A URL is asked whether it is healthy, when that is enabled; a check that cannot
\* run counts as one that failed.
\* Mutant of Check: a check that could not run lets the URL through.
Check_Lenient(a) ==
    /\ a \in Attempt /\ Goes(a, "ran", "judged")
    /\ IF result[a] = "ok" /\ checked
       THEN \E h \in {"healthy", "unhealthy", "skipped"} :
              /\ result' = [result EXCEPT ![a] = IF h = "unhealthy" THEN "failed" ELSE "ok"]
              /\ fit' = IF h = "healthy" THEN fit \cup {a} ELSE fit
       ELSE /\ UNCHANGED result
            /\ fit' = IF result[a] = "ok" THEN fit \cup {a} ELSE fit
    /\ UNCHANGED <<checked, manifest, copy, remote>>
Check(a) ==
    /\ a \in Attempt /\ Goes(a, "ran", "judged")
    /\ IF result[a] = "ok" /\ checked
       THEN \E h \in {"healthy", "unhealthy", "skipped"} :
              /\ result' = [result EXCEPT ![a] = IF h = "healthy" THEN "ok" ELSE "failed"]
              /\ fit' = IF h = "healthy" THEN fit \cup {a} ELSE fit
       ELSE /\ UNCHANGED result
            /\ fit' = IF result[a] = "ok" THEN fit \cup {a} ELSE fit
    /\ UNCHANGED <<checked, manifest, copy, remote>>

\* A cancelled attempt is recorded as not ok, whatever the provider still does, when
\* the agent runs it; the web and the command line forget it.
Cancel(a) ==
    /\ a \in Attempt /\ at[a] \in {"new", "ran"}
    /\ \/ at' = [at EXCEPT ![a] = "judged"] /\ result' = [result EXCEPT ![a] = "failed"]
       \/ at' = [at EXCEPT ![a] = "over"] /\ UNCHANGED result
    /\ remote' \in {remote, remote \cup {a}}
    /\ UNCHANGED <<checked, manifest, copy, fit>>

-----------------------------------------------------------------------------
(* Reading, changing and writing the manifest. *)

Busy(p) == \E b \in Actor : Home[b] = p /\ at[b] = "read"

Read(a) ==
    /\ at[a] = IF a \in Attempt THEN "judged" ELSE "new"
    /\ ~Busy(Home[a])
    /\ at' = [at EXCEPT ![a] = "read"] /\ copy' = [copy EXCEPT ![a] = manifest]
    /\ UNCHANGED <<checked, manifest, result, remote, fit>>

\* An attempt is appended; a good one becomes the only active record.
Recorded(m, a) ==
    LET ok == result[a] = "ok"
        rec == [id |-> a, ok |-> ok, active |-> ok, back |-> FALSE]
        old == IF ok THEN [i \in DOMAIN m.records |-> [m.records[i] EXCEPT !.active = FALSE]]
               ELSE m.records
    IN  [records |-> Last(Append(old, rec)), live |-> IF ok THEN a ELSE m.live]

\* What a rollback starts from: the active record, else one with the live URL, else
\* the newest good one; and what it goes to: the good one before, not rolled back.
Candidates(m) == {i \in DOMAIN m.records : m.records[i].ok /\ ~m.records[i].back}
Newest(S) == CHOOSE i \in S : \A j \in S : j <= i
Current(m) ==
    LET active == {i \in Candidates(m) : m.records[i].active}
        live == {i \in Candidates(m) : m.records[i].id = m.live}
    IN  Newest(IF active # {} THEN active ELSE IF live # {} THEN live ELSE Candidates(m))
Earlier(m) == {i \in Candidates(m) : i < Current(m)}

CanRollBack(m) == Len(m.records) >= 2 /\ Candidates(m) # {} /\ Earlier(m) # {}

RolledBack(m) ==
    LET from == Current(m)  to == Newest(Earlier(m))
    IN  [records |-> [i \in DOMAIN m.records |->
                        IF i = from THEN [m.records[i] EXCEPT !.active = FALSE, !.back = TRUE]
                        ELSE IF i = to THEN [m.records[i] EXCEPT !.active = TRUE]
                        ELSE m.records[i]],
         live |-> m.records[to].id]

\* The manifest is written, whatever was written since it was read; or not at all.
Write(a) ==
    /\ Goes(a, "read", "over")
    /\ \/ /\ a \in Attempt /\ manifest' = Recorded(copy[a], a)
       \/ /\ a \in Rollback /\ CanRollBack(copy[a]) /\ manifest' = RolledBack(copy[a])
       \/ UNCHANGED manifest
    /\ copy' = [copy EXCEPT ![a] = Empty]
    /\ UNCHANGED <<checked, result, remote, fit>>

Next == \E a \in Actor : Refuse(a) \/ Execute(a) \/ Check(a) \/ Cancel(a) \/ Read(a) \/ Write(a)

Spec == Init /\ [][Next]_vars

-----------------------------------------------------------------------------
Record == [id : Attempt, ok : BOOLEAN, active : BOOLEAN, back : BOOLEAN]
Manifest == [records : Seq(Record), live : Attempt \cup {None}]

TypeOK ==
    /\ checked \in BOOLEAN /\ remote \subseteq Attempt /\ fit \subseteq remote
    /\ at \in [Actor -> {"new", "ran", "judged", "read", "over"}]
    /\ result \in [Attempt -> {"none", "ok", "failed"}]
    /\ manifest \in Manifest /\ copy \in [Actor -> Manifest]
    /\ \A m \in {manifest} \cup {copy[a] : a \in Actor} : Len(m.records) <= KeepLast

\* Through any number of attempts, rollbacks and forgotten records, in any order and
\* from any processes: the live URL is one that is up and passed its check, and a
\* record marked active is the live one and was not rolled back.
LiveIsFit ==
    /\ manifest.live # None => manifest.live \in fit
    /\ \A i \in DOMAIN manifest.records :
         manifest.records[i].active =>
            manifest.records[i].id = manifest.live /\ ~manifest.records[i].back

-----------------------------------------------------------------------------
(* The invariant behind it. *)

\* A manifest that may be written back at any time: its live URL is one of the fit, a
\* good record is of a fit URL, an active one is good, live and not rolled back, and an
\* attempt is in it once, and only when it is over.
Sound(records, live, fits, over) ==
    /\ live # None => live \in fits
    /\ \A i \in DOMAIN records :
         /\ records[i].id \in over
         /\ records[i].ok => records[i].id \in fits
         /\ records[i].active => /\ records[i].ok /\ ~records[i].back
                                 /\ records[i].id = live
    /\ \A i, j \in DOMAIN records : records[i].id = records[j].id => i = j

\* So are the one that is there and those that have been read; what a good attempt is
\* about to record is fit.
Over == {a \in Attempt : at[a] = "over"}
ManifestInv ==
    /\ Sound(manifest.records, manifest.live, fit, Over)
    /\ \A a \in Actor : Sound(copy[a].records, copy[a].live, fit, Over)
    /\ \A a \in Attempt : at[a] \in {"judged", "read"} /\ result[a] = "ok" => a \in fit
    /\ \A a \in Attempt : result[a] = "ok" => a \in remote

IInv == TypeOK /\ ManifestInv

-----------------------------------------------------------------------------
(* Lemmas about the manifest's operators. *)

\* The newest of some records is one of them.
LEMMA NewestIsIn ==
  ASSUME NEW n \in Nat, NEW S \in SUBSET (1..n), S # {}
  PROVE  Newest(S) \in S
<1> DEFINE T == {n - j : j \in S}
<1>1. T \subseteq Nat /\ T # {}
  <2>1. \A j \in S : n - j \in Nat OBVIOUS
  <2>. QED BY <2>1
<1>2. PICK x \in T : \A y \in T : ~(<<y, x>> \in OpToRel(<, Nat))
  BY <1>1, NatLessThanWellFounded, WFMin
<1>3. \A y \in T : ~(y < x) BY <1>1, <1>2 DEF OpToRel
<1>4. PICK i \in S : x = n - i OBVIOUS
<1>5. \A j \in S : j <= i
  <2>1. TAKE j \in S
  <2>2. n - j \in T OBVIOUS
  <2>3. ~(n - j < n - i) BY <2>2, <1>3, <1>4
  <2>. QED BY <2>3
<1>. QED BY <1>4, <1>5 DEF Newest

\* Keeping the last records keeps each as it is, in another place.
LEMMA LastKeeps ==
  ASSUME NEW s \in Seq(Record), KeepLast \in Nat \ {0}
  PROVE  /\ Last(s) \in Seq(Record) /\ Len(Last(s)) <= KeepLast
         /\ \E k \in Nat : \A i \in DOMAIN Last(s) :
              i + k \in DOMAIN s /\ Last(s)[i] = s[i + k]
<1>1. Len(s) \in Nat /\ DOMAIN s = 1..Len(s) BY LenProperties
<1>2. CASE Len(s) <= KeepLast
  <2>1. Last(s) = s BY <1>2 DEF Last
  <2>2. \A i \in DOMAIN s : i + 0 \in DOMAIN s /\ s[i] = s[i + 0] BY <1>1
  <2>. QED BY <2>1, <2>2, <1>2
<1>3. CASE Len(s) > KeepLast
  <2> DEFINE d == Len(s) - KeepLast
  <2>1. Last(s) = SubSeq(s, d + 1, Len(s)) BY <1>1, <1>3 DEF Last
  <2>2. d \in Nat /\ d + 1 \in Int /\ Len(s) \in Int BY <1>1, <1>3
  <2>3. \A i \in d + 1 .. Len(s) : s[i] \in Record BY <1>1, <2>2, ElementOfSeq
  <2>4. /\ Last(s) \in Seq(Record)
        /\ Len(Last(s)) = IF d + 1 <= Len(s) THEN Len(s) - (d + 1) + 1 ELSE 0
        /\ \A i \in 1 .. Len(s) - (d + 1) + 1 : Last(s)[i] = s[(d + 1) + i - 1]
    BY <2>1, <2>2, <2>3, SubSeqProperties
  <2>5. Len(Last(s)) = KeepLast BY <2>4, <1>1, <1>3
  <2>6. DOMAIN Last(s) = 1..KeepLast BY <2>4, <2>5, LenProperties
  <2>7. \A i \in 1..KeepLast : i + d \in DOMAIN s /\ Last(s)[i] = s[i + d]
    BY <2>4, <2>2, <1>1, <1>3
  <2>8. \A i \in DOMAIN Last(s) : i + d \in DOMAIN s /\ Last(s)[i] = s[i + d]
    BY <2>6, <2>7
  <2>9. Len(Last(s)) <= KeepLast BY <2>5
  <2> HIDE DEF d
  <2>. QED BY <2>2, <2>4, <2>8, <2>9
<1>. QED BY <1>1, <1>2, <1>3

\* A sound manifest stays so while more becomes fit and more attempts end, and when
\* old records are dropped.
LEMMA SoundGrows ==
  ASSUME NEW s, NEW l, NEW F, NEW D, NEW G, NEW E, F \subseteq G, D \subseteq E, Sound(s, l, F, D)
  PROVE  Sound(s, l, G, E)
  BY DEF Sound
LEMMA LastIsSound ==
  ASSUME NEW s \in Seq(Record), KeepLast \in Nat \ {0}, NEW l, NEW F, NEW D, Sound(s, l, F, D)
  PROVE  Sound(Last(s), l, F, D)
<1>1. PICK k \in Nat : \A i \in DOMAIN Last(s) : i + k \in DOMAIN s /\ Last(s)[i] = s[i + k]
  BY LastKeeps
<1>2. DOMAIN Last(s) \subseteq Nat
  <2>1. Last(s) \in Seq(Record) BY LastKeeps
  <2>. QED BY <2>1, LenProperties
<1>3. \A i, j \in DOMAIN Last(s) : i + k = j + k => i = j BY <1>2
<1>4. \A i, j \in DOMAIN Last(s) : Last(s)[i].id = Last(s)[j].id => i = j
  BY <1>1, <1>3 DEF Sound
<1>. QED BY <1>1, <1>4 DEF Sound

\* Recording an attempt that is in no manifest yet.
LEMMA RecordedIsSound ==
  ASSUME Requests, NEW m \in Manifest, NEW a \in Attempt, NEW F, NEW D,
         Sound(m.records, m.live, F, D), a \notin D, result[a] = "ok" => a \in F
  PROVE  /\ Recorded(m, a) \in Manifest /\ Len(Recorded(m, a).records) <= KeepLast
         /\ Sound(Recorded(m, a).records, Recorded(m, a).live, F, D \cup {a})
<1> DEFINE ok == result[a] = "ok"
           rec == [id |-> a, ok |-> ok, active |-> ok, back |-> FALSE]
           old == IF ok THEN [i \in DOMAIN m.records |-> [m.records[i] EXCEPT !.active = FALSE]]
                  ELSE m.records
           live == IF ok THEN a ELSE m.live
           s == Append(old, rec)
<1>1. Recorded(m, a) = [records |-> Last(s), live |-> live] BY DEF Recorded
<1>2. /\ m.records \in Seq(Record) /\ m.live \in Attempt \cup {None}
      /\ Len(m.records) \in Nat /\ DOMAIN m.records = 1..Len(m.records)
      /\ \A i \in DOMAIN m.records : m.records[i] \in Record
  BY LenProperties, ElementOfSeq DEF Manifest
<1>3. ok \in BOOLEAN /\ rec \in Record /\ live \in Attempt \cup {None} BY <1>2 DEF Record
<1>4. /\ old \in Seq(Record) /\ Len(old) = Len(m.records) /\ DOMAIN old = 1..Len(m.records)
      /\ \A i \in DOMAIN old : /\ old[i].id = m.records[i].id /\ old[i].ok = m.records[i].ok
                               /\ old[i].back = m.records[i].back
                               /\ old[i].active = (m.records[i].active /\ ~ok)
  <2>1. CASE ~ok BY <2>1, <1>2 DEF Record
  <2>2. CASE ok
    <3>1. old = [i \in 1..Len(m.records) |-> [m.records[i] EXCEPT !.active = FALSE]]
      BY <2>2, <1>2
    <3>2. \A i \in 1..Len(m.records) : [m.records[i] EXCEPT !.active = FALSE] \in Record
      BY <1>2 DEF Record
    <3>3. old \in [1..Len(m.records) -> Record] BY <3>1, <3>2
    <3>4. old \in Seq(Record) BY <3>3, <1>2, SeqDef
    <3>5. Len(old) = Len(m.records) BY <3>3, <3>4, <1>2, LenProperties
    <3>6. DOMAIN old = 1..Len(m.records) BY <3>3
    <3>7. ASSUME NEW i \in 1..Len(m.records)
          PROVE  /\ old[i].id = m.records[i].id /\ old[i].ok = m.records[i].ok
                 /\ old[i].back = m.records[i].back /\ old[i].active = FALSE
      <4>1. old[i] = [m.records[i] EXCEPT !.active = FALSE] BY <3>1
      <4>. QED BY <4>1, <1>2 DEF Record
    <3>. HIDE DEF old
    <3>. QED BY <1>2, <2>2, <3>4, <3>5, <3>6, <3>7
  <2>. QED BY <2>1, <2>2
<1> HIDE DEF old, rec, ok
<1>5. /\ s \in Seq(Record) /\ DOMAIN s = 1 .. Len(old) + 1
      /\ \A i \in 1..Len(old) : s[i] = old[i]
      /\ s[Len(old) + 1] = rec
  <2>1. Len(s) = Len(old) + 1 /\ s \in Seq(Record) BY <1>3, <1>4, AppendProperties
  <2>. QED BY <1>3, <1>4, <2>1, AppendProperties, LenProperties
<1>6. Sound(s, live, F, D \cup {a})
  <2>1. rec.id = a /\ rec.ok = ok /\ rec.active = ok /\ rec.back = FALSE BY DEF rec
  <2>2. ok => a \in F BY DEF ok
  <2>3. \A i \in DOMAIN s : (i \in 1..Len(old) /\ s[i] = old[i])
                           \/ (i = Len(old) + 1 /\ s[i] = rec)
    BY <1>2, <1>4, <1>5
  <2>4. live # None => live \in F BY <2>2 DEF Sound
  <2>5. \A i \in 1..Len(old) : old[i].id \in D /\ old[i].id # a BY <1>4 DEF Sound
  <2>6. ASSUME NEW i \in DOMAIN s
        PROVE  /\ s[i].id \in D \cup {a}
               /\ s[i].ok => s[i].id \in F
               /\ s[i].active => s[i].ok /\ ~s[i].back /\ s[i].id = live
    <3>1. CASE i \in 1..Len(old) /\ s[i] = old[i]
      <4>1. i \in DOMAIN old /\ i \in DOMAIN m.records BY <1>2, <1>4, <3>1
      <4>2. s[i].ok => s[i].id \in F BY <1>4, <3>1, <4>1 DEF Sound
      <4>3. ASSUME s[i].active PROVE s[i].ok /\ ~s[i].back /\ s[i].id = live
        <5>1. m.records[i].active /\ ~ok BY <1>4, <3>1, <4>1, <4>3
        <5>2. live = m.live BY <5>1
        <5>. QED BY <1>4, <3>1, <4>1, <5>1, <5>2 DEF Sound
      <4>. QED BY <2>5, <3>1, <4>2, <4>3
    <3>2. CASE i = Len(old) + 1 /\ s[i] = rec
      BY <3>2, <2>1, <2>2
    <3>. QED BY <3>1, <3>2, <2>3
  <2>7. \A i, j \in DOMAIN s : s[i].id = s[j].id => i = j
    <3>1. \A i, j \in 1..Len(old) : old[i].id = old[j].id => i = j BY <1>2, <1>4 DEF Sound
    <3>. QED BY <3>1, <2>1, <2>3, <2>5
  <2>. QED BY <2>4, <2>6, <2>7 DEF Sound
<1>7. Last(s) \in Seq(Record) /\ Len(Last(s)) <= KeepLast BY <1>5, LastKeeps DEF Requests
<1>8. Sound(Last(s), live, F, D \cup {a}) BY <1>5, <1>6, LastIsSound DEF Requests
<1>. QED BY <1>1, <1>3, <1>7, <1>8 DEF Manifest

\* Rolling back goes to a good record and leaves no other active.
LEMMA RolledBackIsSound ==
  ASSUME Requests, NEW m \in Manifest, Len(m.records) <= KeepLast, CanRollBack(m),
         NEW F, NEW D, Sound(m.records, m.live, F, D)
  PROVE  /\ RolledBack(m) \in Manifest /\ Len(RolledBack(m).records) <= KeepLast
         /\ Sound(RolledBack(m).records, RolledBack(m).live, F, D)
<1> DEFINE from == Current(m)
           to == Newest(Earlier(m))
           n == Len(m.records)
           s == RolledBack(m).records
<1>1. /\ m.records \in Seq(Record) /\ m.live \in Attempt \cup {None}
      /\ n \in Nat /\ DOMAIN m.records = 1..n
      /\ \A i \in 1..n : m.records[i] \in Record
  BY LenProperties, ElementOfSeq DEF Manifest
<1>2. Candidates(m) \subseteq 1..n /\ Candidates(m) # {} BY <1>1 DEF Candidates, CanRollBack
<1>3. to \in Candidates(m) /\ to < from
  <2>1. Earlier(m) \in SUBSET (1..n) /\ Earlier(m) # {}
    BY <1>2 DEF Earlier, CanRollBack
  <2>2. to \in Earlier(m) BY <1>1, <2>1, NewestIsIn
  <2>. QED BY <2>2 DEF Earlier
<1>4. \A i \in 1..n : m.records[i].active => i = from
  <2> DEFINE active == {i \in Candidates(m) : m.records[i].active}
  <2>1. ASSUME NEW i \in 1..n, m.records[i].active PROVE i = from
    <3>1. i \in active BY <1>1, <2>1 DEF Sound, Candidates
    <3>2. from = Newest(active) BY <3>1 DEF Current
    <3>3. from \in active BY <1>1, <1>2, <3>1, <3>2, NewestIsIn
    <3>4. from \in 1..n /\ m.records[from].active BY <1>2, <3>3
    <3>. QED BY <1>1, <2>1, <3>4 DEF Sound
  <2>. QED BY <2>1
<1>5. /\ s = [i \in 1..n |->
                IF i = from THEN [m.records[i] EXCEPT !.active = FALSE, !.back = TRUE]
                ELSE IF i = to THEN [m.records[i] EXCEPT !.active = TRUE] ELSE m.records[i]]
      /\ RolledBack(m) = [records |-> s, live |-> m.records[to].id]
  BY <1>1 DEF RolledBack
<1> HIDE DEF s, from, to
<1>6. \A i \in 1..n :
        /\ s[i] \in Record /\ s[i].id = m.records[i].id /\ s[i].ok = m.records[i].ok
        /\ s[i].active <=> i = to
        /\ i = to => s[i].back = m.records[i].back
  <2>1. from # to /\ to \in 1..n BY <1>2, <1>3
  <2>2. ASSUME NEW i \in 1..n
        PROVE  /\ s[i] \in Record /\ s[i].id = m.records[i].id /\ s[i].ok = m.records[i].ok
               /\ s[i].active <=> i = to
               /\ i = to => s[i].back = m.records[i].back
    <3>1. CASE i = from BY <1>1, <1>5, <2>1, <3>1 DEF Record
    <3>2. CASE i = to BY <1>1, <1>5, <2>1, <3>2 DEF Record
    <3>3. CASE i # from /\ i # to BY <1>1, <1>4, <1>5, <3>3 DEF Record
    <3>. QED BY <3>1, <3>2, <3>3
  <2>. QED BY <2>2
<1>7. s \in Seq(Record) /\ Len(s) = n /\ DOMAIN s = 1..n
  <2>1. s \in [1..n -> Record] BY <1>5, <1>6
  <2>2. s \in Seq(Record) BY <2>1, <1>1, SeqDef
  <2>. QED BY <2>1, <2>2, <1>1, LenProperties
<1>8. to \in 1..n /\ m.records[to].ok /\ ~m.records[to].back BY <1>2, <1>3, <1>1 DEF Candidates
<1>9. m.records[to].id \in F /\ m.records[to].id \in Attempt
  BY <1>1, <1>8 DEF Sound, Record
<1>10. Sound(s, m.records[to].id, F, D) BY <1>1, <1>6, <1>7, <1>8, <1>9 DEF Sound
<1>11. [records |-> s, live |-> m.records[to].id] \in Manifest BY <1>7, <1>9 DEF Manifest
<1>12. RolledBack(m).records = s BY DEF s
<1>13. RolledBack(m).live = m.records[to].id BY DEF RolledBack, to
<1>. QED BY <1>5, <1>7, <1>10, <1>11, <1>12, <1>13

-----------------------------------------------------------------------------
(* Proofs. *)

LEMMA ManifestInit == Requests /\ Init => IInv
<1>. SUFFICES ASSUME Requests, Init PROVE IInv OBVIOUS
<1>1. Empty \in Manifest /\ Len(Empty.records) = 0 /\ Empty.records = <<>> /\ Empty.live = None
  BY EmptySeq DEF Empty, Manifest
<1>2. TypeOK BY <1>1 DEF Init, TypeOK, Requests
<1>3. \A F, D : Sound(Empty.records, Empty.live, F, D) BY <1>1 DEF Sound
<1>4. ManifestInv BY <1>3 DEF Init, ManifestInv
<1>. QED BY <1>2, <1>4 DEF IInv

\* A step that neither reads nor writes the manifest.
LEMMA OtherKept ==
  ASSUME IInv, UNCHANGED <<manifest, copy>>, fit \subseteq fit', Over \subseteq Over'
  PROVE  /\ Sound(manifest.records, manifest.live, fit, Over)'
         /\ \A a \in Actor : Sound(copy[a].records, copy[a].live, fit, Over)'
         /\ (manifest \in Manifest /\ copy \in [Actor -> Manifest])'
         /\ (\A m \in {manifest} \cup {copy[a] : a \in Actor} : Len(m.records) <= KeepLast)'
<1>1. Sound(manifest.records, manifest.live, fit', Over')
  BY SoundGrows DEF IInv, ManifestInv
<1>2. \A a \in Actor : Sound(copy[a].records, copy[a].live, fit', Over')
  BY SoundGrows DEF IInv, ManifestInv
<1>. QED BY <1>1, <1>2 DEF IInv, TypeOK, Sound

LEMMA AttemptStep ==
  ASSUME Requests, IInv, NEW a \in Actor, Refuse(a) \/ Execute(a) \/ Check(a) \/ Cancel(a)
  PROVE  IInv'
<1>. USE DEF Requests, Goes, Actor
<1>1. /\ UNCHANGED <<manifest, copy, checked>> /\ fit \subseteq fit' /\ Over \subseteq Over'
  <2>1. /\ UNCHANGED <<manifest, copy, checked>> /\ fit \subseteq fit'
        /\ at[a] # "over" /\ \E p : at' = [at EXCEPT ![a] = p]
    BY DEF Refuse, Execute, Check, Cancel
  <2>. QED BY <2>1 DEF Over, IInv, TypeOK
<1>2. /\ remote' \subseteq Attempt /\ fit' \subseteq remote'
      /\ at' \in [Actor -> {"new", "ran", "judged", "read", "over"}]
      /\ result' \in [Attempt -> {"none", "ok", "failed"}]
      /\ \A b \in Attempt : at'[b] \in {"judged", "read"} /\ result'[b] = "ok" => b \in fit'
      /\ \A b \in Attempt : result'[b] = "ok" => b \in remote'
  <2>. USE DEF IInv, TypeOK, ManifestInv
  <2>1. CASE Refuse(a) BY <2>1 DEF Refuse
  <2>2. CASE Execute(a) BY <2>2 DEF Execute, Withheld, Sent
  <2>3. CASE Check(a) BY <2>3 DEF Check
  <2>4. CASE Cancel(a) BY <2>4 DEF Cancel
  <2>. QED BY <2>1, <2>2, <2>3, <2>4
<1>3. checked' \in BOOLEAN BY <1>1 DEF IInv, TypeOK
<1>4. TypeOK' BY <1>1, <1>2, <1>3, OtherKept DEF TypeOK
<1>5. ManifestInv' BY <1>1, <1>2, OtherKept DEF ManifestInv
<1>. QED BY <1>4, <1>5 DEF IInv

LEMMA ReadStep == ASSUME Requests, IInv, NEW a \in Actor, Read(a) PROVE IInv'
<1>. USE DEF Requests, Goes, Actor
<1>1. /\ UNCHANGED <<checked, manifest, result, remote, fit>>
      /\ copy' = [copy EXCEPT ![a] = manifest] /\ at' = [at EXCEPT ![a] = "read"]
      /\ at[a] # "over" /\ (a \in Attempt => at[a] = "judged")
  BY DEF Read
<1>2. Over' = Over BY <1>1 DEF Over, IInv, TypeOK
<1>3. \A b \in Actor : copy'[b] \in {copy[b], manifest} BY <1>1 DEF IInv, TypeOK
<1>4. TypeOK' BY <1>1, <1>3 DEF IInv, TypeOK
<1>5. Sound(manifest.records, manifest.live, fit, Over)'
  BY <1>1, <1>2 DEF IInv, ManifestInv, Sound
<1>6. ASSUME NEW b \in Actor PROVE Sound(copy[b].records, copy[b].live, fit, Over)'
  <2>1. Sound(copy'[b].records, copy'[b].live, fit, Over)
    BY <1>3 DEF IInv, ManifestInv
  <2>. QED BY <2>1, <1>1, <1>2 DEF Sound
<1>7. \A b \in Attempt : /\ at'[b] \in {"judged", "read"} /\ result'[b] = "ok" => b \in fit'
                         /\ result'[b] = "ok" => b \in remote'
  BY <1>1 DEF IInv, ManifestInv, TypeOK
<1>. QED BY <1>4, <1>5, <1>6, <1>7 DEF IInv, ManifestInv

LEMMA WriteStep == ASSUME Requests, IInv, NEW a \in Actor, Write(a) PROVE IInv'
<1>. USE DEF Requests, Goes, Actor
<1>1. /\ UNCHANGED <<checked, result, remote, fit>> /\ at[a] = "read"
      /\ copy' = [copy EXCEPT ![a] = Empty] /\ at' = [at EXCEPT ![a] = "over"]
  BY DEF Write
<1>2. Over' = IF a \in Attempt THEN Over \cup {a} ELSE Over
  BY <1>1 DEF Over, IInv, TypeOK
<1>3. Empty \in Manifest /\ Len(Empty.records) = 0 /\ \A F, D : Sound(Empty.records, Empty.live, F, D)
  BY EmptySeq DEF Empty, Manifest, Sound
<1>4. /\ manifest' \in Manifest /\ Len(manifest'.records) <= KeepLast
      /\ Sound(manifest'.records, manifest'.live, fit, Over')
  <2>0. copy[a] \in Manifest /\ Len(copy[a].records) <= KeepLast
        /\ Sound(copy[a].records, copy[a].live, fit, Over)
    BY DEF IInv, TypeOK, ManifestInv
  <2>1. CASE a \in Attempt /\ manifest' = Recorded(copy[a], a)
    <3>1. a \notin Over /\ (result[a] = "ok" => a \in fit)
      BY <1>1, <2>1 DEF Over, IInv, ManifestInv
    <3>. QED BY <1>2, <2>0, <2>1, <3>1, RecordedIsSound
  <2>2. CASE a \in Rollback /\ CanRollBack(copy[a]) /\ manifest' = RolledBack(copy[a])
    BY <1>2, <2>0, <2>2, RolledBackIsSound, SoundGrows
  <2>3. CASE UNCHANGED manifest
    BY <1>2, <2>3, SoundGrows DEF IInv, TypeOK, ManifestInv
  <2>. QED BY <2>1, <2>2, <2>3 DEF Write
<1>5. ASSUME NEW b \in Actor
      PROVE  /\ copy'[b] \in Manifest /\ Len(copy'[b].records) <= KeepLast
             /\ Sound(copy'[b].records, copy'[b].live, fit, Over')
  <2>1. CASE b = a
    <3>1. copy'[b] = Empty BY <1>1, <2>1 DEF IInv, TypeOK
    <3>. QED BY <1>3, <3>1
  <2>2. CASE b # a
    <3>1. copy'[b] = copy[b] BY <1>1, <2>2 DEF IInv, TypeOK
    <3>2. Sound(copy[b].records, copy[b].live, fit, Over') BY <1>2, SoundGrows DEF IInv, ManifestInv
    <3>. QED BY <3>1, <3>2 DEF IInv, TypeOK
  <2>. QED BY <2>1, <2>2
<1>6. TypeOK'
  <2>1. copy' \in [Actor -> Manifest] BY <1>1, <1>5 DEF IInv, TypeOK
  <2>2. at' \in [Actor -> {"new", "ran", "judged", "read", "over"}] BY <1>1 DEF IInv, TypeOK
  <2>. QED BY <1>1, <1>4, <1>5, <2>1, <2>2 DEF IInv, TypeOK
<1>7. Sound(manifest.records, manifest.live, fit, Over)' BY <1>1, <1>4 DEF Sound
<1>8. \A b \in Actor : Sound(copy[b].records, copy[b].live, fit, Over)' BY <1>1, <1>5 DEF Sound
<1>9. \A b \in Attempt : /\ at'[b] \in {"judged", "read"} /\ result'[b] = "ok" => b \in fit'
                         /\ result'[b] = "ok" => b \in remote'
  BY <1>1 DEF IInv, ManifestInv, TypeOK
<1>. QED BY <1>6, <1>7, <1>8, <1>9 DEF IInv, ManifestInv

LEMMA Invariance == ASSUME Requests PROVE Spec => []IInv
<1>1. IInv /\ [Next]_vars => IInv'
  <2>. SUFFICES ASSUME IInv, [Next]_vars PROVE IInv' OBVIOUS
  <2>1. CASE UNCHANGED vars
    BY <2>1 DEF vars, IInv, TypeOK, ManifestInv, Sound, Over
  <2>. QED BY <2>1, AttemptStep, ReadStep, WriteStep DEF Next
<1>. QED BY <1>1, ManifestInit, PTL DEF Spec

\* The manifest and what has been read of it are well formed, and never hold more
\* records than are kept.
THEOREM TypeCorrect == ASSUME Requests PROVE Spec => []TypeOK
<1>1. IInv => TypeOK BY DEF IInv
<1>. QED BY <1>1, Invariance, PTL

\* record_deployment and rollback_deployment: whatever attempts and rollbacks come, from
\* any processes that overwrite each other's manifest, the live URL passed its check
\* and only its record is active.
THEOREM LiveIsFitHolds == ASSUME Requests PROVE Spec => []LiveIsFit
<1>1. IInv => LiveIsFit BY DEF IInv, ManifestInv, Sound, LiveIsFit
<1>. QED BY <1>1, Invariance, PTL

=============================================================================
