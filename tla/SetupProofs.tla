---- MODULE SetupProofs ----
(***************************************************************************)
(* Theorems about AccessorySetup, for every number of sessions, codes and   *)
(* kinds of accessory.                                                      *)
(***************************************************************************)
EXTENDS AccessorySetup, TLAPS

\* A setup code that is locked or kept exists; the refresh timer runs exactly for
\* a generated code that may be changed, and that is on an unpaired accessory.
CodeFits(a, isPaired) ==
    /\ a \in AccessorySetup
    /\ a.lock => Available(a)
    /\ a.keep => a.lock
    /\ a.refreshTimer => ~isPaired /\ Available(a) /\ ~a.lock
    /\ Available(a) /\ ~a.lock /\ Dynamic(a) => a.refreshTimer

-----------------------------------------------------------------------------
(* The setup code *)

LEMMA NoSetupInfoFits ==
    ASSUME NEW a \in AccessorySetup, NEW isPaired \in BOOLEAN
    PROVE  /\ CodeFits(NoSetupInfo(a.interfaces), isPaired)
           /\ ~Available(NoSetupInfo(a.interfaces))
  BY DEF NoSetupInfo, AccessorySetup, CodeFits, Available

LEMMA ClearedFits ==
    ASSUME NEW a, NEW isPaired \in BOOLEAN, CodeFits(a, isPaired)
    PROVE  /\ CodeFits(Cleared(a), isPaired)
           /\ ~Available(Cleared(a))
           /\ ~Cleared(a).keep
           /\ Cleared(a).interfaces = a.interfaces
  BY DEF Cleared, NoSetupInfo, AccessorySetup, CodeFits, Available

LEMMA PreparedFits ==
    ASSUME NEW a, NEW isPaired \in BOOLEAN, CodeFits(a, isPaired), NEW lock \in BOOLEAN,
           lock \/ ~isPaired, NEW r \in Prepared(a, lock)
    PROVE  /\ CodeFits(r, isPaired)
           /\ Available(r)
           /\ r.interfaces = a.interfaces
           /\ lock \/ a.lock => r.lock
           /\ Available(a) => r.code = a.code /\ r.keep = a.keep
           /\ ~Available(a) => ~r.keep
  <1>0. a \in AccessorySetup
    BY DEF CodeFits
  <1>1. CASE Available(a)
    <2>1. r = IF lock THEN Locked(a) ELSE a
      BY <1>1 DEF Prepared
    <2>2. QED
      BY <1>0, <1>1, <2>1 DEF Locked, CodeFits, Available, AccessorySetup, Dynamic
  <1>2. CASE ~Available(a)
    <2>1. PICK c \in Codes :
              r = [a EXCEPT !.code = c, !.lock = lock, !.keep = FALSE,
                            !.refreshTimer = Dynamic(a) /\ ~lock]
      BY <1>2, SetupInfoAssumption DEF Prepared
    <2>2. Dynamic(a) \in BOOLEAN
      BY DEF Dynamic
    <2>3. r \in AccessorySetup /\ r.code = c /\ r.lock = lock /\ r.keep = FALSE
          /\ r.refreshTimer = (Dynamic(a) /\ ~lock) /\ r.interfaces = a.interfaces
      BY <1>0, <2>1, <2>2 DEF AccessorySetup
    <2>4. Available(r) /\ Dynamic(r) = Dynamic(a)
      BY <2>3, SetupInfoAssumption DEF Available, Dynamic
    <2>5. QED
      BY <1>2, <2>3, <2>4 DEF CodeFits
  <1>3. QED
    BY <1>1, <1>2

\* The two ways to ask for a code: for a pairing attempt, and to show it.
LEMMA PreparedLocked ==
    ASSUME NEW a, NEW isPaired \in BOOLEAN, CodeFits(a, isPaired), NEW r \in Prepared(a, TRUE)
    PROVE  /\ CodeFits(r, isPaired)
           /\ Available(r)
           /\ r.interfaces = a.interfaces
           /\ r.lock
           /\ Available(a) => r.code = a.code /\ r.keep = a.keep
           /\ ~Available(a) => ~r.keep
  <1> DEFINE lock == TRUE
  <1>1. lock \in BOOLEAN /\ lock /\ r \in Prepared(a, lock)
    OBVIOUS
  <1> HIDE DEF lock
  <1>2. QED
    BY <1>1, PreparedFits, ZenonT(60)

LEMMA PreparedToShow ==
    ASSUME NEW a, CodeFits(a, FALSE), NEW r \in Prepared(a, FALSE)
    PROVE  /\ CodeFits(r, FALSE)
           /\ Available(r)
           /\ r.interfaces = a.interfaces
           /\ a.lock => r.lock
           /\ Available(a) => r.code = a.code /\ r.keep = a.keep
           /\ ~Available(a) => ~r.keep
  <1> DEFINE no == FALSE
  <1>1. no \in BOOLEAN /\ ~no /\ r \in Prepared(a, no) /\ CodeFits(a, no)
    OBVIOUS
  <1>2. no = FALSE
    OBVIOUS
  <1> HIDE DEF no
  <1>3. /\ CodeFits(r, no) /\ Available(r) /\ r.interfaces = a.interfaces
        /\ a.lock => r.lock
        /\ Available(a) => r.code = a.code /\ r.keep = a.keep
        /\ ~Available(a) => ~r.keep
    BY <1>1, PreparedFits
  <1>4. QED
    BY <1>2, <1>3

LEMMA ResumedFits ==
    ASSUME NEW a, NEW isPaired \in BOOLEAN, CodeFits(a, isPaired), NEW r \in Resumed(a, isPaired)
    PROVE  /\ CodeFits(r, isPaired)
           /\ r.interfaces = a.interfaces
           /\ a.lock => r.lock
           /\ Available(a) => r.code = a.code /\ r.keep = a.keep
           /\ ~Available(a) => ~r.keep /\ (isPaired => ~Available(r))
           /\ HasDisplay(a) /\ ~isPaired => Available(r)
  BY PreparedFits DEF Resumed, CodeFits

\* A pairing attempt ends: its code goes, unless it is kept.
LEMMA StoppedFits ==
    ASSUME NEW a, NEW isPaired \in BOOLEAN, CodeFits(a, isPaired), NEW keep \in BOOLEAN,
           keep => a.lock, NEW r \in Stopped(a, keep, isPaired)
    PROVE  /\ CodeFits(r, isPaired)
           /\ r.interfaces = a.interfaces
           /\ keep => r.lock /\ r.code = a.code
           /\ isPaired /\ ~keep => ~Available(r)
           /\ HasDisplay(a) /\ ~isPaired => Available(r)
           /\ ~keep => ~r.keep
  <1>1. CASE keep
    <2>1. CodeFits([a EXCEPT !.keep = TRUE], isPaired)
          /\ [a EXCEPT !.keep = TRUE].lock /\ Available([a EXCEPT !.keep = TRUE])
          /\ [a EXCEPT !.keep = TRUE].code = a.code
          /\ [a EXCEPT !.keep = TRUE].interfaces = a.interfaces
      BY <1>1 DEF CodeFits, AccessorySetup, Available, Dynamic
    <2>2. r \in Resumed([a EXCEPT !.keep = TRUE], isPaired)
      BY <1>1 DEF Stopped
    <2> DEFINE b == [a EXCEPT !.keep = TRUE]
    <2> HIDE DEF b
    <2>3. CodeFits(b, isPaired) /\ b.lock /\ Available(b) /\ b.code = a.code
          /\ b.interfaces = a.interfaces /\ r \in Resumed(b, isPaired)
      BY <2>1, <2>2 DEF b
    <2>4. QED
      BY <1>1, <2>3, ResumedFits DEF HasDisplay
  <1>2. CASE ~keep
    <2>1. r \in Resumed(Cleared(a), isPaired)
      BY <1>2 DEF Stopped
    <2>2. QED
      BY <1>2, <2>1, ClearedFits, ResumedFits DEF HasDisplay
  <1>3. QED
    BY <1>1, <1>2

\* M2 and M4 take the locked code, or a new one if it was kept for somebody else.
LEMMA GetSetupInfoFits ==
    ASSUME NEW a, NEW isPaired \in BOOLEAN, CodeFits(a, isPaired), a.lock, NEW restorePrevious \in BOOLEAN,
           NEW r \in GetSetupInfo(a, restorePrevious)
    PROVE  /\ CodeFits(r, isPaired)
           /\ r.interfaces = a.interfaces
           /\ r.lock /\ Available(r)
           /\ restorePrevious \/ ~a.keep => r = a
           /\ ~restorePrevious => ~r.keep
  <1>1. CASE ~restorePrevious /\ a.keep
    <2> DEFINE b == Cleared(a)
    <2>1. CodeFits(b, isPaired) /\ ~Available(b) /\ b.interfaces = a.interfaces
      BY ClearedFits
    <2>2. r \in Prepared(b, TRUE)
      BY <1>1 DEF GetSetupInfo
    <2> HIDE DEF b
    <2>3. QED
      BY <1>1, <2>1, <2>2, PreparedLocked, ZenonT(60)
  <1>2. CASE ~(~restorePrevious /\ a.keep)
    BY <1>2 DEF GetSetupInfo, CodeFits
  <1>3. QED
    BY <1>1, <1>2

\* What timers and the application may do; a locked code stays as it is.
LEMMA ExpiredFits ==
    ASSUME NEW a, NEW isPaired \in BOOLEAN, CodeFits(a, isPaired), a.refreshTimer, NEW r \in Expired(a)
    PROVE  /\ CodeFits(r, isPaired)
           /\ r.interfaces = a.interfaces
           /\ HasDisplay(a) => Available(r)
           /\ ~a.lock /\ ~isPaired
  <1> DEFINE b == [a EXCEPT !.refreshTimer = FALSE]
             c == Cleared(b)
  <1>1. a \in AccessorySetup /\ Available(a) /\ ~a.lock /\ ~a.keep /\ ~isPaired
    BY DEF CodeFits
  <1>2. c = [NoSetupInfo(a.interfaces) EXCEPT !.nfcTimer = a.nfcTimer]
    BY <1>1 DEF Cleared, Available, AccessorySetup
  <1>3. CodeFits(c, isPaired) /\ ~Available(c) /\ c.interfaces = a.interfaces
    BY <1>1, <1>2 DEF NoSetupInfo, CodeFits, Available, AccessorySetup
  <1>4. r \in Prepared(c, FALSE) \/ (r = c /\ ~HasDisplay(a))
    BY <1>3 DEF Expired, HasDisplay
  <1>5. isPaired = FALSE /\ CodeFits(c, FALSE)
    BY <1>1, <1>3
  <1> HIDE DEF c
  <1>6. CodeFits(r, FALSE) /\ r.interfaces = a.interfaces /\ (HasDisplay(a) => Available(r))
    BY <1>3, <1>4, <1>5, PreparedToShow
  <1>7. QED
    BY <1>1, <1>5, <1>6

LEMMA RefreshedFits ==
    ASSUME NEW a, NEW isPaired \in BOOLEAN, CodeFits(a, isPaired), NEW r \in Refreshed(a)
    PROVE  /\ CodeFits(r, isPaired)
           /\ r.interfaces = a.interfaces
           /\ a.lock => r = a
           /\ Available(a) => Available(r)
           /\ isPaired => r = a
  <1>1. CASE a.refreshTimer
    <2>1. ~a.lock /\ ~isPaired /\ r \in Prepared(Cleared(a), FALSE)
      BY <1>1 DEF CodeFits, Refreshed
    <2> DEFINE b == Cleared(a)
    <2>2. CodeFits(b, isPaired) /\ b.interfaces = a.interfaces
      BY ClearedFits
    <2> HIDE DEF b
    <2>3. CodeFits(r, isPaired) /\ r.interfaces = b.interfaces /\ Available(r)
      BY <2>1, <2>2, PreparedFits, ZenonT(60) DEF b
    <2>4. QED
      BY <2>1, <2>2, <2>3
  <1>2. CASE ~a.refreshTimer
    BY <1>2 DEF Refreshed
  <1>3. QED
    BY <1>1, <1>2

LEMMA EnteredNFCFits ==
    ASSUME NEW a, CodeFits(a, FALSE), NEW r \in EnteredNFC(a)
    PROVE  /\ CodeFits(r, FALSE)
           /\ r.interfaces = a.interfaces
           /\ Available(r)
           /\ a.lock => r.lock /\ r.code = a.code /\ r.keep = a.keep
  <1> DEFINE b == [a EXCEPT !.nfcTimer = TRUE]
  <1>1. CodeFits(b, FALSE) /\ b.interfaces = a.interfaces /\ b.code = a.code /\ b.lock = a.lock
        /\ b.keep = a.keep
    BY DEF CodeFits, AccessorySetup, Available, Dynamic
  <1>2. a.lock => Available(b)
    BY <1>1 DEF CodeFits
  <1>3. r \in Prepared(b, FALSE)
    BY DEF EnteredNFC
  <1> HIDE DEF b
  <1>4. QED
    BY <1>1, <1>2, <1>3, PreparedFits

LEMMA ExitedNFCFits ==
    ASSUME NEW a, NEW isPaired \in BOOLEAN, CodeFits(a, isPaired)
    PROVE  /\ CodeFits(ExitedNFC(a), isPaired)
           /\ ExitedNFC(a).interfaces = a.interfaces
           /\ Available(a) /\ HasDisplay(a) => Available(ExitedNFC(a))
           /\ ~Available(a) => ~Available(ExitedNFC(a))
           /\ a.lock => /\ ExitedNFC(a).lock
                        /\ ExitedNFC(a).code = a.code
                        /\ ExitedNFC(a).keep = a.keep
  <1> DEFINE b == [a EXCEPT !.nfcTimer = FALSE]
  <1>1. CodeFits(b, isPaired) /\ b.interfaces = a.interfaces /\ b.code = a.code /\ b.lock = a.lock
        /\ b.keep = a.keep /\ b.refreshTimer = a.refreshTimer
    BY DEF CodeFits, AccessorySetup, Available, Dynamic
  <1>2. ExitedNFC(a) = IF ~b.lock /\ ~b.refreshTimer THEN Cleared(b) ELSE b
    BY DEF ExitedNFC
  <1>3. Available(a) /\ HasDisplay(a) => b.lock \/ b.refreshTimer
    BY <1>1 DEF CodeFits, HasDisplay, Dynamic
  <1>4. Available(a) <=> Available(b)
    BY <1>1 DEF Available
  <1> HIDE DEF b
  <1>5. QED
    BY <1>1, <1>2, <1>3, <1>4, ClearedFits

-----------------------------------------------------------------------------
(* The procedure *)

Procedures == [ps : PairSetupState, as : AccessorySetup, setup : [AllSessions -> SetupState]]

\* The session that holds the procedure has a locked code.  One that has been
\* answered M2 holds it, was let in while attempts were left and nobody was
\* paired, and its keys are made from the present code; the code it uses was
\* kept from an earlier attempt only for Split Pair Setup.
ProcedureFits(p, isPaired, failed) ==
    /\ p \in Procedures
    /\ ~p.ps.keepSetupInfo
    /\ CodeFits(p.as, isPaired)
    /\ p.ps.session # NoSession => p.as.lock
    /\ \A s \in AllSessions :
        /\ p.setup[s].state >= 2 => p.ps.session = s
        /\ p.setup[s].state \in 2 .. 3 => failed < MaxAttempts
        /\ p.setup[s].state \in 2 .. 4 => /\ ~isPaired
                                          /\ p.as.code = p.ps.code
                                          /\ p.as.keep => p.ps.flags = {"split"}

LEMMA NoPairSetupFits ==
    /\ NoPairSetup \in PairSetupState
    /\ NoPairSetup.session = NoSession /\ ~NoPairSetup.keepSetupInfo
    /\ NoSetup \in SetupState /\ NoSetup.state = 0
  BY DEF NoPairSetup, PairSetupState, NoSetup, SetupState, Guesses

LEMMA ProcedureTypes ==
    ASSUME NEW p, NEW isPaired, NEW failed, ProcedureFits(p, isPaired, failed)
    PROVE  /\ p \in Procedures /\ p.ps \in PairSetupState /\ p.as \in AccessorySetup
           /\ p.setup \in [AllSessions -> SetupState]
           /\ p = [ps |-> p.ps, as |-> p.as, setup |-> p.setup]
           /\ [p EXCEPT !.ps.keepSetupInfo = FALSE] = p
  <1>1. p \in Procedures /\ p.ps \in PairSetupState /\ ~p.ps.keepSetupInfo
    BY DEF ProcedureFits, Procedures
  <1>2. [p.ps EXCEPT !.keepSetupInfo = FALSE] = p.ps
    BY <1>1 DEF PairSetupState
  <1>3. QED
    BY <1>1, <1>2 DEF Procedures

\* The session s loses the procedure, if it holds it, with its code or without.
LEMMA ResetFits ==
    ASSUME NEW p, NEW s \in AllSessions, NEW failed, ProcedureFits(p, paired, failed),
           paired \in BOOLEAN, NEW p1 \in Procedures, p1.as = p.as, p1.setup = p.setup,
           p1.ps.session = p.ps.session, p.ps.session # s => p1.ps = p.ps,
           NEW q \in ResetForSession(p1, s)
    PROVE  /\ ProcedureFits(q, paired, failed)
           /\ q.setup = [p.setup EXCEPT ![s] = NoSetup]
           /\ q.ps.session # s
           /\ q.ps.session \in {p.ps.session, NoSession}
           /\ p.ps.session # s => q.ps = p.ps /\ q.as = p.as
           /\ p.ps.session = s => /\ q.ps = NoPairSetup
                                  /\ p1.ps.keepSetupInfo => q.as.lock /\ q.as.code = p.as.code
                                  /\ paired /\ ~p1.ps.keepSetupInfo => ~Available(q.as)
           /\ q.as.interfaces = p.as.interfaces
           /\ HasDisplay(p.as) /\ ~paired /\ Available(p.as) => Available(q.as)
  <1> DEFINE mine == p.ps.session = s
             keep == p1.ps.keepSetupInfo
  <1>1. p \in Procedures /\ p.ps \in PairSetupState /\ p.as \in AccessorySetup
        /\ p.setup \in [AllSessions -> SetupState]
    BY DEF ProcedureFits, Procedures
  <1>2. keep \in BOOLEAN
    BY DEF Procedures, PairSetupState
  <1>5. PICK a \in IF mine THEN Stopped(p.as, keep, paired) ELSE {p.as} :
            q = [ps |-> IF mine THEN NoPairSetup ELSE p1.ps, as |-> a,
                 setup |-> [p.setup EXCEPT ![s] = NoSetup]]
    BY DEF ResetForSession
  <1>6. q.ps = (IF mine THEN NoPairSetup ELSE p.ps) /\ q.as = a
        /\ q.setup = [p.setup EXCEPT ![s] = NoSetup]
    BY <1>5
  <1>7. CodeFits(p.as, paired) /\ (mine => p.as.lock)
    BY PairSetupAssumption DEF ProcedureFits
  <1>8. /\ CodeFits(a, paired)
        /\ a.interfaces = p.as.interfaces
        /\ ~mine => a = p.as
        /\ mine /\ keep => a.lock /\ a.code = p.as.code
        /\ mine /\ paired /\ ~keep => ~Available(a)
        /\ mine /\ HasDisplay(p.as) /\ ~paired => Available(a)
    <2>1. CASE mine
      BY <1>2, <1>5, <1>7, <2>1, StoppedFits
    <2>2. CASE ~mine
      BY <1>5, <1>7, <2>2
    <2>3. QED
      BY <2>1, <2>2
  <1>9. \A t \in AllSessions : q.setup[t].state \in 0 .. 5
            /\ (q.setup[t].state >= 2 => t # s /\ q.setup[t] = p.setup[t])
    BY <1>1, <1>6, NoPairSetupFits DEF SetupState
  <1>10. ProcedureFits(q, paired, failed)
    <2>1. q \in Procedures
      BY <1>1, <1>5, <1>6, <1>8, NoPairSetupFits DEF Procedures, CodeFits
    <2>2. ~q.ps.keepSetupInfo /\ (q.ps.session # NoSession => q.as.lock)
      BY <1>6, <1>8, NoPairSetupFits DEF ProcedureFits
    <2>3. ASSUME NEW t \in AllSessions
          PROVE  /\ q.setup[t].state >= 2 => q.ps.session = t
                 /\ q.setup[t].state \in 2 .. 3 => failed < MaxAttempts
                 /\ q.setup[t].state \in 2 .. 4 => /\ ~paired
                                                   /\ q.as.code = q.ps.code
                                                   /\ q.as.keep => q.ps.flags = {"split"}
      <3>1. CASE q.setup[t].state >= 2
        <4>1. t # s /\ q.setup[t] = p.setup[t] /\ p.ps.session = t
          BY <1>9, <3>1 DEF ProcedureFits
        <4>2. q.ps = p.ps /\ q.as = p.as
          BY <1>6, <1>8, <4>1
        <4>3. QED
          BY <4>1, <4>2 DEF ProcedureFits
      <3>2. CASE ~(q.setup[t].state >= 2)
        BY <1>9, <3>2
      <3>3. QED
        BY <3>1, <3>2
    <2>4. QED
      BY <1>6, <1>8, <2>1, <2>2, <2>3 DEF ProcedureFits
  <1>11. q.ps.session # s /\ q.ps.session \in {p.ps.session, NoSession}
    BY <1>6, NoPairSetupFits, PairSetupAssumption
  <1>12. QED
    BY <1>6, <1>8, <1>10, <1>11

\* The end of an attempt: the code goes with the procedure.
LEMMA ResetEndsIt ==
    ASSUME NEW p, NEW s \in AllSessions, NEW failed, ProcedureFits(p, paired, failed),
           paired \in BOOLEAN, NEW q \in ResetForSession(p, s)
    PROVE  /\ ProcedureFits(q, paired, failed)
           /\ q.setup = [p.setup EXCEPT ![s] = NoSetup]
           /\ q.ps.session # s
           /\ q.ps.session \in {p.ps.session, NoSession}
           /\ p.ps.session # s => q.ps = p.ps /\ q.as = p.as
           /\ p.ps.session = s => q.ps = NoPairSetup /\ (paired => ~Available(q.as))
           /\ q.as.interfaces = p.as.interfaces
           /\ HasDisplay(p.as) /\ ~paired /\ Available(p.as) => Available(q.as)
  <1>1. p \in Procedures /\ ~p.ps.keepSetupInfo
    BY DEF ProcedureFits
  <1>2. QED
    BY <1>1, ResetFits

\* The end of an attempt whose code is kept.
LEMMA KeptFits ==
    ASSUME NEW p, NEW failed, ProcedureFits(p, paired, failed), paired \in BOOLEAN,
           p.ps.session \in AllSessions,
           NEW r \in ResetForSession([p EXCEPT !.ps.keepSetupInfo = TRUE], p.ps.session)
    PROVE  /\ ProcedureFits(r, paired, failed)
           /\ r.setup = [p.setup EXCEPT ![p.ps.session] = NoSetup]
           /\ r.ps = NoPairSetup
           /\ r.as.lock /\ r.as.code = p.as.code
           /\ r.as.interfaces = p.as.interfaces
           /\ HasDisplay(p.as) /\ ~paired /\ Available(p.as) => Available(r.as)
  <1> DEFINE p1 == [p EXCEPT !.ps.keepSetupInfo = TRUE]
  <1>1. p1 \in Procedures /\ p1.as = p.as /\ p1.setup = p.setup
        /\ p1.ps.session = p.ps.session /\ p1.ps.keepSetupInfo
    BY ProcedureTypes, ZenonT(60) DEF Procedures, PairSetupState
  <1>2. r \in ResetForSession(p1, p.ps.session)
    OBVIOUS
  <1> HIDE DEF p1
  <1>3. QED
    BY <1>1, <1>2, ResetFits

\* The session that holds the procedure loses it, and its code is there for the
\* next one.
LEMMA AbortedFits ==
    ASSUME NEW p, NEW failed, ProcedureFits(p, paired, failed), paired \in BOOLEAN,
           p.ps.session \in AllSessions, NEW q \in Aborted(p)
    PROVE  /\ ProcedureFits(q, paired, failed)
           /\ q.setup = [p.setup EXCEPT ![p.ps.session] = NoSetup]
           /\ q.ps = NoPairSetup
           /\ q.as.interfaces = p.as.interfaces
           /\ HasDisplay(p.as) /\ ~paired /\ Available(p.as) => Available(q.as)
  <1>2. PICK r \in ResetForSession([p EXCEPT !.ps.keepSetupInfo = TRUE], p.ps.session) :
            q = [r EXCEPT !.as.keep = FALSE]
    BY DEF Aborted
  <1>3. /\ ProcedureFits(r, paired, failed)
        /\ r.setup = [p.setup EXCEPT ![p.ps.session] = NoSetup]
        /\ r.ps = NoPairSetup
        /\ r.as.interfaces = p.as.interfaces
        /\ HasDisplay(p.as) /\ ~paired /\ Available(p.as) => Available(r.as)
    BY KeptFits
  <1>4. r \in Procedures /\ r.as \in AccessorySetup
    BY <1>3, ProcedureTypes
  <1>5. q.ps = r.ps /\ q.setup = r.setup /\ q.as = [r.as EXCEPT !.keep = FALSE]
        /\ q = [ps |-> q.ps, as |-> q.as, setup |-> q.setup]
    BY <1>2, <1>4 DEF Procedures
  <1>6. CodeFits(q.as, paired) /\ q.as.lock = r.as.lock /\ q.as.code = r.as.code /\ ~q.as.keep
        /\ q.as.interfaces = r.as.interfaces
    BY <1>3, <1>4, <1>5 DEF ProcedureFits, CodeFits, AccessorySetup, Available, Dynamic
  <1>7. q \in Procedures
    BY <1>4, <1>5, <1>6 DEF Procedures, CodeFits
  <1>8. ProcedureFits(q, paired, failed)
    BY <1>3, <1>5, <1>6, <1>7 DEF ProcedureFits
  <1>9. QED
    BY <1>3, <1>5, <1>6, <1>8 DEF Available

\* The procedure is given to s, with the code that is there or a new one.
LEMMA ClaimedFits ==
    ASSUME NEW p, NEW s \in AllSessions, NEW failed, ProcedureFits(p, FALSE, failed),
           NEW q \in Claimed(p, s)
    PROVE  /\ ProcedureFits(q, FALSE, failed)
           /\ q.setup = p.setup
           /\ q.as.interfaces = p.as.interfaces
           /\ Available(p.as) => Available(q.as)
           /\ q.ps.session = IF p.ps.session = NoSession THEN s ELSE p.ps.session
           /\ p.ps.session # NoSession => q = p
  <1>0. p \in Procedures /\ p.ps \in PairSetupState
    BY ProcedureTypes
  <1>1. CASE p.ps.session # NoSession
    BY <1>1 DEF Claimed
  <1>2. CASE p.ps.session = NoSession
    <2>1. PICK a \in Prepared(p.as, TRUE) : q = [p EXCEPT !.ps.session = s, !.as = a]
      BY <1>2 DEF Claimed
    <2>2. q.ps = [p.ps EXCEPT !.session = s] /\ q.as = a /\ q.setup = p.setup
          /\ q = [ps |-> q.ps, as |-> q.as, setup |-> q.setup]
      BY <1>0, <2>1 DEF Procedures
    <2>3. q.ps.session = s /\ q.ps.keepSetupInfo = p.ps.keepSetupInfo /\ q.ps \in PairSetupState
      BY <1>0, <2>2 DEF PairSetupState
    <2>4. CodeFits(p.as, FALSE)
      BY DEF ProcedureFits
    <2>5. CodeFits(a, FALSE) /\ Available(a) /\ a.lock /\ a.interfaces = p.as.interfaces
      BY <2>1, <2>4, PreparedLocked
    <2>6. \A t \in AllSessions : /\ ~(p.setup[t].state >= 2)
                                  /\ p.setup[t].state \notin 2 .. 3
                                  /\ p.setup[t].state \notin 2 .. 4
      BY <1>0, <1>2, PairSetupAssumption DEF ProcedureFits, Procedures, SetupState
    <2>7. q \in Procedures
      BY <1>0, <2>2, <2>3, <2>5 DEF Procedures, CodeFits
    <2>8. ProcedureFits(q, FALSE, failed)
      BY <2>2, <2>3, <2>5, <2>6, <2>7 DEF ProcedureFits
    <2>9. QED
      BY <1>2, <2>2, <2>3, <2>5, <2>8
  <1>3. QED
    BY <1>1, <1>2

\* Whatever a handler does to the procedure at its beginning: only the sessions it
\* resets change, and an accessory that shows a code goes on showing one.
Continues(p, q, s) ==
    /\ q.as.interfaces = p.as.interfaces
    /\ HasDisplay(p.as) /\ ~paired /\ Available(p.as) => Available(q.as)
    /\ \A t \in AllSessions : q.setup[t] \in {p.setup[t], NoSetup}
    /\ q.ps.session \in {p.ps.session, s, NoSession}
    /\ p.ps.session \notin {s, NoSession} /\ ~p.ps.expired => q.ps = p.ps
    /\ paired /\ p.ps.session # s => q.ps = p.ps /\ q.as = p.as

LEMMA RestartedFits ==
    ASSUME NEW p, NEW s \in AllSessions, NEW failed, ProcedureFits(p, paired, failed),
           paired \in BOOLEAN, NEW isM1 \in BOOLEAN, NEW q \in Restarted(p, s, isM1)
    PROVE  ProcedureFits(q, paired, failed) /\ Continues(p, q, s)
  <1>0. p.setup \in [AllSessions -> SetupState]
    BY ProcedureTypes
  <1>1. CASE p.ps.session = s /\ isM1
    <2>1. q \in Aborted(p)
      BY <1>1 DEF Restarted
    <2>2. /\ ProcedureFits(q, paired, failed)
          /\ q.setup = [p.setup EXCEPT ![s] = NoSetup]
          /\ q.ps.session = NoSession
          /\ q.as.interfaces = p.as.interfaces
          /\ HasDisplay(p.as) /\ ~paired /\ Available(p.as) => Available(q.as)
      BY <1>1, <2>1, AbortedFits, NoPairSetupFits
    <2>3. QED
      BY <1>0, <1>1, <2>2, PairSetupAssumption DEF Continues
  <1>2. CASE ~(p.ps.session = s /\ isM1)
    BY <1>2 DEF Restarted, Continues
  <1>3. QED
    BY <1>1, <1>2

LEMMA TakenOverFits ==
    ASSUME NEW p, NEW s \in AllSessions, NEW failed, ProcedureFits(p, paired, failed),
           paired = FALSE, NEW q \in TakenOver(p, s)
    PROVE  ProcedureFits(q, paired, failed) /\ Continues(p, q, s)
  <1>0. p.setup \in [AllSessions -> SetupState]
        /\ p.ps.session \in AllSessions \cup {NoSession}
    BY ProcedureTypes DEF PairSetupState
  <1>1. CASE p.ps.session \notin {s, NoSession} /\ p.ps.expired
    <2>1. q \in Aborted(p) /\ p.ps.session \in AllSessions
      BY <1>0, <1>1 DEF TakenOver
    <2>2. /\ ProcedureFits(q, paired, failed)
          /\ q.setup = [p.setup EXCEPT ![p.ps.session] = NoSetup]
          /\ q.ps.session = NoSession
          /\ q.as.interfaces = p.as.interfaces
          /\ HasDisplay(p.as) /\ ~paired /\ Available(p.as) => Available(q.as)
      BY <2>1, AbortedFits, NoPairSetupFits
    <2>3. QED
      BY <1>0, <1>1, <2>2 DEF Continues
  <1>2. CASE ~(p.ps.session \notin {s, NoSession} /\ p.ps.expired)
    BY <1>2 DEF TakenOver, Continues
  <1>3. QED
    BY <1>1, <1>2

\* The procedures of the sessions that a request closes are reset; none of them
\* holds the procedure.
LEMMA RemainingFits ==
    ASSUME NEW s \in AllSessions, ProcedureFits(Procedure, paired, attempts),
           pairSetup.session \notin transient
    PROVE  LET p == [Procedure EXCEPT !.setup = Remaining(s)]
           IN  /\ ProcedureFits(p, paired, attempts)
               /\ p.ps = pairSetup /\ p.as = accessorySetup /\ p.setup = Remaining(s)
               /\ \A t \in AllSessions : p.setup[t] \in {setup[t], NoSetup}
               /\ \A t \in AllSessions : setup[t].state >= 2 => p.setup[t] = setup[t]
               /\ p.setup[s] = setup[s]
  <1> DEFINE p == [Procedure EXCEPT !.setup = Remaining(s)]
  <1>1. p.ps = pairSetup /\ p.as = accessorySetup /\ p.setup = Remaining(s)
        /\ p = [ps |-> pairSetup, as |-> accessorySetup, setup |-> Remaining(s)]
    BY DEF Procedure
  <1>2. pairSetup \in PairSetupState /\ accessorySetup \in AccessorySetup
        /\ setup \in [AllSessions -> SetupState]
    BY ProcedureTypes DEF Procedure
  <1>3. \A t \in AllSessions : setup[t].state >= 2 => pairSetup.session = t
    BY DEF ProcedureFits, Procedure
  <1>4. \A t \in AllSessions : Remaining(s)[t] = IF t \in ClosedBy(s) THEN NoSetup ELSE setup[t]
    BY DEF Remaining
  <1>5. s \notin ClosedBy(s) /\ pairSetup.session \notin ClosedBy(s)
    BY DEF ClosedBy
  <1>6. Remaining(s) \in [AllSessions -> SetupState]
    BY <1>2, NoPairSetupFits DEF Remaining
  <1>7. \A t \in AllSessions : Remaining(s)[t] = setup[t] \/ ~(Remaining(s)[t].state >= 2)
    BY <1>4, NoPairSetupFits
  <1>8. ProcedureFits(p, paired, attempts)
    <2>1. p \in Procedures
      BY <1>1, <1>2, <1>6 DEF Procedures
    <2>2. ASSUME NEW t \in AllSessions
          PROVE  /\ p.setup[t].state >= 2 => p.ps.session = t
                 /\ p.setup[t].state \in 2 .. 3 => attempts < MaxAttempts
                 /\ p.setup[t].state \in 2 .. 4 => /\ ~paired
                                                   /\ p.as.code = p.ps.code
                                                   /\ p.as.keep => p.ps.flags = {"split"}
      <3>1. CASE Remaining(s)[t] = setup[t]
        BY <1>1, <3>1 DEF ProcedureFits, Procedure
      <3>2. CASE ~(Remaining(s)[t].state >= 2)
        <4>1. Remaining(s)[t].state \in 0 .. 5
          BY <1>6 DEF SetupState
        <4>2. QED
          BY <1>1, <3>2, <4>1
      <3>3. QED
        BY <1>7, <3>1, <3>2
    <2>3. QED
      BY <1>1, <2>1, <2>2 DEF ProcedureFits, Procedure
  <1>9. \A t \in AllSessions : setup[t].state >= 2 => p.setup[t] = setup[t]
    BY <1>1, <1>3, <1>4, <1>5
  <1>10. p.setup[s] = setup[s] /\ \A t \in AllSessions : p.setup[t] \in {setup[t], NoSetup}
    BY <1>1, <1>4, <1>5
  <1>11. QED
    BY <1>1, <1>8, <1>9, <1>10

\* The beginning of a write.
LEMMA WriteStartedFits ==
    ASSUME NEW s \in AllSessions, ProcedureFits(Procedure, paired, attempts),
           paired \in BOOLEAN, pairSetup.session \notin transient, NEW isM1 \in BOOLEAN,
           NEW q \in WriteStarted(s, isM1)
    PROVE  ProcedureFits(q, paired, attempts) /\ Continues(Procedure, q, s)
  <1> DEFINE r == [Procedure EXCEPT !.setup = Remaining(s)]
  <1>1. ProcedureFits(r, paired, attempts) /\ Continues(Procedure, r, s)
        /\ r.ps = Procedure.ps
    BY RemainingFits DEF Continues, Procedure
  <1>2. PICK p \in Restarted(r, s, isM1) :
            q \in IF p.setup[s].state = 0 /\ ~paired
                  THEN UNION {Claimed(o, s) : o \in TakenOver(p, s)}
                  ELSE {p}
    BY DEF WriteStarted
  <1> HIDE DEF r
  <1>3. ProcedureFits(p, paired, attempts) /\ Continues(r, p, s)
    BY <1>1, RestartedFits
  <1>4. CASE p.setup[s].state = 0 /\ ~paired
    <2>1. PICK o \in TakenOver(p, s) : q \in Claimed(o, s)
      BY <1>2, <1>4
    <2>3. paired = FALSE
      BY <1>4
    <2>2. ProcedureFits(o, paired, attempts) /\ Continues(p, o, s)
      BY <1>3, <2>1, <2>3, TakenOverFits
    <2>4. ProcedureFits(o, FALSE, attempts)
      BY <2>2, <2>3
    <2>5. /\ ProcedureFits(q, FALSE, attempts)
          /\ q.setup = o.setup
          /\ q.as.interfaces = o.as.interfaces
          /\ Available(o.as) => Available(q.as)
          /\ q.ps.session = IF o.ps.session = NoSession THEN s ELSE o.ps.session
          /\ o.ps.session # NoSession => q = o
      BY <2>1, <2>4, ClaimedFits
    <2>6. ProcedureFits(q, paired, attempts)
      BY <2>3, <2>5
    <2>7. Continues(Procedure, q, s)
      BY <1>1, <1>3, <1>4, <2>2, <2>5 DEF Continues, HasDisplay
    <2>8. QED
      BY <2>6, <2>7
  <1>5. CASE ~(p.setup[s].state = 0 /\ ~paired)
    <2>1. q = p
      BY <1>2, <1>5
    <2>2. QED
      BY <1>1, <1>3, <2>1 DEF Continues, HasDisplay
  <1>6. QED
    BY <1>4, <1>5

-----------------------------------------------------------------------------
(* The inductive invariant *)

RestTyped ==
    /\ paired \in BOOLEAN
    /\ attempts \in 0 .. MaxAttempts
    /\ connection \in [AllSessions -> {"closed", "reading", "processing"}]
    /\ transient \subseteq AllSessions
    /\ inHandler \in IPSessions \cup {NoSession}
    /\ callbackTimer \in BOOLEAN
    /\ server \in {"running", "idle"} \cup Assertions

\* The session that holds the procedure is open and not yet secured.
HolderIsOpen ==
    pairSetup.session # NoSession
        => connection[pairSetup.session] # "closed" /\ pairSetup.session \notin transient

\* An unpaired accessory with a display shows a code or is about to.
CodeIsShown ==
    server = "running" /\ HasDisplay(accessorySetup) /\ ~paired
        => Available(accessorySetup) \/ callbackTimer

SetupInv ==
    /\ RestTyped
    /\ ProcedureFits(Procedure, paired, attempts)
    /\ HolderIsOpen
    /\ CodeIsShown

\* What the invariant says of the three variables that handlers replace.
LEMMA ProcedureTyped ==
    ASSUME ProcedureFits(Procedure, paired, attempts)
    PROVE  /\ pairSetup \in PairSetupState /\ accessorySetup \in AccessorySetup
           /\ setup \in [AllSessions -> SetupState]
           /\ pairSetup.session \in AllSessions \cup {NoSession}
           /\ ~pairSetup.keepSetupInfo
           /\ CodeFits(accessorySetup, paired)
           /\ pairSetup.session # NoSession => accessorySetup.lock
           /\ \A s \in AllSessions :
                /\ setup[s].state \in 0 .. 5
                /\ setup[s].method \in {"PairSetup", "PairSetupWithAuth"}
                /\ setup[s].error \in BOOLEAN
                /\ setup[s].state >= 2 => pairSetup.session = s
                /\ setup[s].state \in 2 .. 3 => attempts < MaxAttempts
                /\ setup[s].state \in 2 .. 4 => /\ ~paired
                                                /\ accessorySetup.code = pairSetup.code
                                                /\ accessorySetup.keep => pairSetup.flags = {"split"}
  <1>1. pairSetup \in PairSetupState /\ accessorySetup \in AccessorySetup
        /\ setup \in [AllSessions -> SetupState]
    BY ProcedureTypes DEF Procedure
  <1>2. pairSetup.session \in AllSessions \cup {NoSession}
    BY <1>1 DEF PairSetupState
  <1>3. QED
    BY <1>1, <1>2 DEF ProcedureFits, Procedure, SetupState

\* Conversely, for the state after a step.
LEMMA ProcedureFitsAfter ==
    ASSUME NEW ps \in PairSetupState, NEW as, NEW st \in [AllSessions -> SetupState],
           NEW isPaired \in BOOLEAN, NEW failed,
           ~ps.keepSetupInfo, CodeFits(as, isPaired), ps.session # NoSession => as.lock,
           \A s \in AllSessions : /\ st[s].state >= 2 => ps.session = s
                                  /\ st[s].state \in 2 .. 3 => failed < MaxAttempts
                                  /\ st[s].state \in 2 .. 4 =>
                                        /\ ~isPaired
                                        /\ as.code = ps.code
                                        /\ as.keep => ps.flags = {"split"}
    PROVE  ProcedureFits([ps |-> ps, as |-> as, setup |-> st], isPaired, failed)
  <1>1. as \in AccessorySetup
    BY DEF CodeFits
  <1>2. [ps |-> ps, as |-> as, setup |-> st] \in Procedures
    BY <1>1 DEF Procedures
  <1>3. QED
    BY <1>2 DEF ProcedureFits

LEMMA BecomeFits ==
    ASSUME NEW q, Become(q), NEW isPaired, NEW failed, ProcedureFits(q, isPaired, failed)
    PROVE  Procedure' = q /\ ProcedureFits(Procedure', isPaired, failed)
  <1>1. Procedure' = q
    BY ProcedureTypes DEF Become, Procedure
  <1>2. QED
    BY <1>1

\* A code that was kept is only changed by the next attempt.
CodeKept ==
    accessorySetup.keep /\ accessorySetup'.code # accessorySetup.code
        => \/ pairSetup.session # NoSession
           \/ \E s \in AllSessions : WriteM1(s) \/ WriteRefused(s)
           \/ server' # "running"

Authenticated == \E s \in AllSessions : setup[s].state = 4

GateStep == [Gate!Next]_<<paired, attempts, Authenticated>>

\* What has to be shown of every step.
StepFits == SetupInv' /\ GateStep /\ CodeKept

\* Nobody gets in, and no code is tried.
LEMMA QuietSteps ==
    ASSUME UNCHANGED <<paired, attempts>>, 
           \A s \in AllSessions : setup'[s].state = 4 => setup[s].state = 4
    PROVE  GateStep
  <1>1. Authenticated \in BOOLEAN /\ Authenticated' \in BOOLEAN /\ (Authenticated' => Authenticated)
    BY DEF Authenticated
  <1>2. CASE Authenticated' = Authenticated
    BY <1>2 DEF GateStep
  <1>3. CASE Authenticated /\ ~Authenticated'
    BY <1>3 DEF GateStep, Gate!Next, Gate!Abandon, Authenticated
  <1>4. QED
    BY <1>1, <1>2, <1>3

\* What a reset leaves.
LEMMA ResetStep ==
    ASSUME ProcedureFits(Procedure, paired, attempts), paired \in BOOLEAN,
           NEW s \in AllSessions, \E p \in ResetForSession(Procedure, s) : Become(p)
    PROVE  /\ ProcedureFits(Procedure', paired, attempts)
           /\ setup' = [setup EXCEPT ![s] = NoSetup]
           /\ pairSetup'.session # s
           /\ pairSetup'.session \in {pairSetup.session, NoSession}
           /\ pairSetup.session # s => UNCHANGED <<pairSetup, accessorySetup>>
           /\ pairSetup.session = s => /\ pairSetup' = NoPairSetup
                                       /\ paired => ~Available(accessorySetup')
           /\ accessorySetup'.interfaces = accessorySetup.interfaces
           /\ HasDisplay(accessorySetup) /\ ~paired /\ Available(accessorySetup)
                => Available(accessorySetup')
  <1>1. PICK q \in ResetForSession(Procedure, s) : Become(q)
    OBVIOUS
  <1>2. Procedure.ps = pairSetup /\ Procedure.as = accessorySetup /\ Procedure.setup = setup
    BY DEF Procedure
  <1>3. q.ps = pairSetup' /\ q.as = accessorySetup' /\ q.setup = setup'
    BY <1>1 DEF Become
  <1> DEFINE p == Procedure
  <1>4. p.ps = pairSetup /\ p.as = accessorySetup /\ p.setup = setup /\ ProcedureFits(p, paired, attempts)
        /\ q \in ResetForSession(p, s)
    BY <1>1, <1>2
  <1> HIDE DEF p
  <1>5. /\ ProcedureFits(q, paired, attempts)
        /\ q.setup = [p.setup EXCEPT ![s] = NoSetup]
        /\ q.ps.session # s
        /\ q.ps.session \in {p.ps.session, NoSession}
        /\ p.ps.session # s => q.ps = p.ps /\ q.as = p.as
        /\ p.ps.session = s => q.ps = NoPairSetup /\ (paired => ~Available(q.as))
        /\ q.as.interfaces = p.as.interfaces
        /\ HasDisplay(p.as) /\ ~paired /\ Available(p.as) => Available(q.as)
    BY <1>4, ResetEndsIt
  <1>6. ProcedureFits(Procedure', paired, attempts)
    BY <1>1, <1>5, BecomeFits
  <1>7. QED
    BY <1>3, <1>4, <1>5, <1>6

\* Nobody computes a proof any more: the count of attempts may change.
LEMMA CountMayChange ==
    ASSUME NEW p, NEW isPaired, NEW failed, NEW others, ProcedureFits(p, isPaired, failed),
           \A s \in AllSessions : p.setup[s].state \notin 2 .. 3
    PROVE  ProcedureFits(p, isPaired, others)
  BY DEF ProcedureFits

-----------------------------------------------------------------------------
(* Steps that end an attempt *)

\* A read that answers with an error resets the procedure; what it does to the
\* count of attempts is said by the caller.
LEMMA ReadResetFits ==
    ASSUME SetupInv, NEW s \in AllSessions, ReadReset(s),
           attempts' \in 0 .. MaxAttempts, attempts' = attempts \/ setup[s].state >= 2
    PROVE  /\ SetupInv'
           /\ CodeKept
           /\ \A t \in AllSessions : setup'[t].state = 4 => setup[t].state = 4 /\ t # s
           /\ UNCHANGED paired
  <1>1. /\ ProcedureFits(Procedure', paired, attempts)
        /\ setup' = [setup EXCEPT ![s] = NoSetup]
        /\ pairSetup'.session # s
        /\ pairSetup'.session \in {pairSetup.session, NoSession}
        /\ pairSetup.session # s => UNCHANGED <<pairSetup, accessorySetup>>
        /\ accessorySetup'.interfaces = accessorySetup.interfaces
        /\ HasDisplay(accessorySetup) /\ ~paired /\ Available(accessorySetup)
             => Available(accessorySetup')
    BY ResetStep DEF ReadReset, SetupInv, RestTyped
  <1>2. /\ setup \in [AllSessions -> SetupState]
        /\ \A t \in AllSessions : setup[t].state \in 0 .. 5 /\ (setup[t].state >= 2 => pairSetup.session = t)
    BY ProcedureTyped DEF SetupInv
  <1>3. \A t \in AllSessions : setup'[t] = IF t = s THEN NoSetup ELSE setup[t]
    BY <1>1, <1>2
  <1>4. ProcedureFits(Procedure', paired', attempts')
    <2>1. paired' = paired
      BY DEF ReadReset
    <2>2. CASE attempts' = attempts
      BY <1>1, <2>1, <2>2
    <2>3. CASE setup[s].state >= 2
      <3>1. \A t \in AllSessions : setup'[t].state \notin 2 .. 3
        BY <1>2, <1>3, <2>3, NoPairSetupFits
      <3>2. Procedure'.setup = setup'
        BY DEF Procedure
      <3>3. QED
        BY <1>1, <2>1, <3>1, <3>2, CountMayChange
    <2>4. QED
      BY <2>2, <2>3
  <1>5. RestTyped'
    BY DEF SetupInv, RestTyped, ReadReset, Answered
  <1>6. HolderIsOpen'
    BY <1>1 DEF SetupInv, RestTyped, HolderIsOpen, ReadReset, Answered
  <1>7. CodeIsShown'
    BY <1>1 DEF SetupInv, CodeIsShown, ReadReset, HasDisplay
  <1>8. CodeKept
    BY <1>1, PairSetupAssumption DEF CodeKept
  <1>9. QED
    BY <1>3, <1>4, <1>5, <1>6, <1>7, <1>8, NoPairSetupFits DEF SetupInv, ReadReset

LEMMA RefusedReads ==
    ASSUME SetupInv, NEW s \in AllSessions,
           RefuseM2(s) \/ (ReadM6(s) /\ ReadReset(s)) \/ ReadUnexpected(s)
    PROVE  StepFits
  <1>1. ReadReset(s)
    BY DEF RefuseM2, ReadM6, ReadUnexpected
  <1>2. UNCHANGED attempts
    BY DEF RefuseM2, ReadM6, ReadUnexpected, Abort, ReadReset
  <1>3. attempts' \in 0 .. MaxAttempts
    BY <1>2 DEF SetupInv, RestTyped
  <1>4. QED
    BY <1>1, <1>2, <1>3, ReadResetFits, QuietSteps DEF StepFits

\* A wrong code is counted, if it is, while attempts are left.
LEMMA RejectedReads ==
    ASSUME SetupInv, NEW s \in AllSessions, RejectM4(s)
    PROVE  StepFits
  <1>1. /\ ReadReset(s) /\ setup[s].state = 3
        /\ attempts' \in {attempts, attempts + 1}
    BY DEF RejectM4
  <1>2. /\ attempts < MaxAttempts
        /\ \A t \in AllSessions : setup[t].state >= 2 => t = s
        /\ \A t \in AllSessions : setup[t].state \in 0 .. 5
    BY <1>1, ProcedureTyped DEF SetupInv
  <1>3. attempts' \in 0 .. MaxAttempts
    BY <1>1, <1>2, PairSetupAssumption DEF SetupInv, RestTyped
  <1>4. /\ SetupInv' /\ CodeKept /\ UNCHANGED paired
        /\ \A t \in AllSessions : setup'[t].state = 4 => setup[t].state = 4
    BY <1>1, <1>3, ReadResetFits
  <1>5. GateStep
    <2>1. CASE attempts' = attempts
      BY <1>4, <2>1, QuietSteps
    <2>2. CASE attempts' = attempts + 1
      <3>1. ~Authenticated /\ ~Authenticated'
        BY <1>1, <1>2, <1>4 DEF Authenticated
      <3>2. QED
        BY <1>2, <1>4, <2>2, <3>1 DEF GateStep, Gate!Next, Gate!WrongCode, Authenticated
    <2>3. QED
      BY <1>1, <2>1, <2>2
  <1>6. QED
    BY <1>4, <1>5 DEF StepFits

\* The count is reset for a right code, whatever happens then.
LEMMA RightCodeIsGate ==
    ASSUME SetupInv, NEW s \in AllSessions, setup[s].state = 3, attempts' = 0, UNCHANGED paired
    PROVE  GateStep
  <1>1. /\ attempts < MaxAttempts /\ ~paired
        /\ \A t \in AllSessions : setup[t].state >= 2 => t = s
        /\ \A t \in AllSessions : setup[t].state \in 0 .. 5
    BY ProcedureTyped DEF SetupInv
  <1>2. ~Authenticated /\ Authenticated' \in BOOLEAN
    BY <1>1 DEF Authenticated
  <1>3. QED
    BY <1>1, <1>2 DEF GateStep, Gate!Next, Gate!RightCode, Authenticated

LEMMA FailedReads ==
    ASSUME SetupInv, NEW s \in AllSessions, FailM4(s)
    PROVE  StepFits
  <1>1. /\ ReadReset(s) /\ setup[s].state = 3
        /\ attempts' \in {attempts, 0}
    BY DEF FailM4
  <1>2. attempts' \in 0 .. MaxAttempts
    BY <1>1, PairSetupAssumption DEF SetupInv, RestTyped
  <1>3. /\ SetupInv' /\ CodeKept /\ UNCHANGED paired
        /\ \A t \in AllSessions : setup'[t].state = 4 => setup[t].state = 4
    BY <1>1, <1>2, ReadResetFits
  <1>4. GateStep
    BY <1>1, <1>3, QuietSteps, RightCodeIsGate
  <1>5. QED
    BY <1>3, <1>4 DEF StepFits

\* A peer that goes away, or begins a new BLE procedure, loses its attempt.
LEMMA DisconnectFits ==
    ASSUME SetupInv, NEW s \in AllSessions, CloseSession(s) \/ InvalidateForPairSetup(s)
    PROVE  StepFits
  <1>0. /\ \E p \in ResetForSession(Procedure, s) : Become(p)
        /\ UNCHANGED <<paired, attempts, inHandler, callbackTimer, server>>
        /\ transient' = transient \ {s}
        /\ connection' \in {connection, [connection EXCEPT ![s] = "closed"]}
    BY DEF CloseSession, InvalidateForPairSetup
  <1>1. /\ ProcedureFits(Procedure', paired, attempts)
        /\ setup' = [setup EXCEPT ![s] = NoSetup]
        /\ pairSetup'.session # s
        /\ pairSetup'.session \in {pairSetup.session, NoSession}
        /\ pairSetup.session # s => UNCHANGED <<pairSetup, accessorySetup>>
        /\ accessorySetup'.interfaces = accessorySetup.interfaces
        /\ HasDisplay(accessorySetup) /\ ~paired /\ Available(accessorySetup)
             => Available(accessorySetup')
    BY <1>0, ResetStep DEF SetupInv, RestTyped
  <1>2. /\ setup \in [AllSessions -> SetupState]
        /\ pairSetup.session \in AllSessions \cup {NoSession}
    BY ProcedureTyped DEF SetupInv
  <1>3. \A t \in AllSessions : setup'[t].state = 4 => setup[t].state = 4
    BY <1>1, <1>2, NoPairSetupFits
  <1>4. RestTyped'
    BY <1>0 DEF SetupInv, RestTyped
  <1>5. HolderIsOpen'
    BY <1>0, <1>1, <1>2 DEF SetupInv, RestTyped, HolderIsOpen
  <1>6. CodeIsShown'
    BY <1>0, <1>1 DEF SetupInv, CodeIsShown, HasDisplay
  <1>7. CodeKept
    BY <1>1, PairSetupAssumption DEF CodeKept
  <1>8. GateStep
    BY <1>0, <1>3, QuietSteps
  <1>9. QED
    BY <1>0, <1>1, <1>4, <1>5, <1>6, <1>7, <1>8 DEF SetupInv, StepFits

-----------------------------------------------------------------------------
(* Answers that let a controller go on *)

\* M2 gives the session the code it will have to prove.
LEMMA AcceptedM2 ==
    ASSUME SetupInv, NEW s \in AllSessions, AcceptM2(s)
    PROVE  StepFits
  <1> DEFINE restore == Split(s) /\ ~Transient(s)
  <1>1. PICK a \in GetSetupInfo(accessorySetup, restore) :
            accessorySetup' = a /\ pairSetup' = [pairSetup EXCEPT !.code = a.code]
    BY DEF AcceptM2
  <1>2. /\ setup[s].state = 1 /\ pairSetup.session = s /\ ~paired /\ attempts < MaxAttempts
        /\ setup' = [setup EXCEPT ![s].state = 2]
        /\ inHandler' = NoSession /\ connection' = [connection EXCEPT ![s] = "reading"]
        /\ UNCHANGED <<paired, attempts, transient, callbackTimer, server>>
    BY DEF AcceptM2, AttemptsLeft, Answered
  <1>3. /\ pairSetup \in PairSetupState
        /\ setup \in [AllSessions -> SetupState]
        /\ ~pairSetup.keepSetupInfo
        /\ CodeFits(accessorySetup, paired) /\ accessorySetup.lock
        /\ \A t \in AllSessions : setup[t].state \in 0 .. 5 /\ (setup[t].state >= 2 => t = s)
    BY <1>2, ProcedureTyped, PairSetupAssumption DEF SetupInv
  <1>a. paired \in BOOLEAN
    BY DEF SetupInv, RestTyped
  <1>4. restore => "split" \in pairSetup.flags /\ ~("transient" \in pairSetup.flags)
    BY DEF Split, Transient
  <1>5. pairSetup.flags \in SUBSET {"transient", "split"}
    BY <1>3 DEF PairSetupState
  <1>6. restore \in BOOLEAN /\ (restore => pairSetup.flags = {"split"})
    BY <1>4, <1>5 DEF Split, Transient
  <1> HIDE DEF restore
  <1>7. /\ CodeFits(a, paired) /\ a.interfaces = accessorySetup.interfaces
        /\ a.lock /\ Available(a)
        /\ ~restore => ~a.keep
    BY <1>1, <1>3, <1>6, <1>a, GetSetupInfoFits
  <1>8. /\ pairSetup' \in PairSetupState /\ pairSetup'.session = s /\ pairSetup'.code = a.code
        /\ pairSetup'.flags = pairSetup.flags /\ ~pairSetup'.keepSetupInfo
    BY <1>1, <1>2, <1>3, <1>7 DEF PairSetupState, CodeFits, AccessorySetup
  <1>9. /\ setup' \in [AllSessions -> SetupState]
        /\ \A t \in AllSessions : setup'[t].state = (IF t = s THEN 2 ELSE setup[t].state)
    BY <1>2, <1>3 DEF SetupState
  <1>10. ProcedureFits(Procedure', paired', attempts')
    <2>1. \A t \in AllSessions :
              /\ setup'[t].state >= 2 => pairSetup'.session = t
              /\ setup'[t].state \in 2 .. 3 => attempts < MaxAttempts
              /\ setup'[t].state \in 2 .. 4 => /\ ~paired
                                               /\ accessorySetup'.code = pairSetup'.code
                                               /\ accessorySetup'.keep => pairSetup'.flags = {"split"}
      BY <1>1, <1>2, <1>3, <1>6, <1>7, <1>8, <1>9
    <2>2. CodeFits(accessorySetup', paired) /\ accessorySetup'.lock
      BY <1>1, <1>7
    <2>3. ProcedureFits([ps |-> pairSetup', as |-> accessorySetup', setup |-> setup'], paired, attempts)
      BY <1>8, <1>9, <1>a, <2>1, <2>2, ProcedureFitsAfter
    <2>4. QED
      BY <1>2, <2>3 DEF Procedure
  <1>11. RestTyped'
    BY <1>2 DEF SetupInv, RestTyped
  <1>12. HolderIsOpen' /\ CodeIsShown' /\ CodeKept
    BY <1>1, <1>2, <1>7, <1>8, PairSetupAssumption DEF SetupInv, HolderIsOpen, CodeIsShown, CodeKept, RestTyped
  <1>13. GateStep
    BY <1>2, <1>9, QuietSteps
  <1>14. QED
    BY <1>10, <1>11, <1>12, <1>13 DEF SetupInv, StepFits

\* While M4 is computed nothing changes but its stage.
LEMMA WaitingReads ==
    ASSUME SetupInv, NEW s \in AllSessions, BusyM4(s)
    PROVE  StepFits
  <1>1. /\ setup[s].state = 3 /\ pairSetup.stage < 5
        /\ accessorySetup' \in GetSetupInfo(accessorySetup, pairSetup.flags = {"split"})
        /\ pairSetup' = [pairSetup EXCEPT !.stage = @ + 1, !.secret = @ \/ pairSetup.stage = 2]
        /\ inHandler' = NoSession
        /\ connection' \in {[connection EXCEPT ![s] = "processing"], [connection EXCEPT ![s] = "reading"]}
        /\ UNCHANGED <<paired, attempts, setup, transient, callbackTimer, server>>
    BY DEF BusyM4, NextStage
  <1>2. /\ pairSetup \in PairSetupState
        /\ setup \in [AllSessions -> SetupState]
        /\ pairSetup.session = s /\ ~pairSetup.keepSetupInfo
        /\ CodeFits(accessorySetup, paired) /\ accessorySetup.lock
        /\ ~paired
        /\ accessorySetup.keep => pairSetup.flags = {"split"}
        /\ \A t \in AllSessions : setup[t].state \in 0 .. 5 /\ (setup[t].state >= 2 => t = s)
    BY <1>1, ProcedureTyped, PairSetupAssumption DEF SetupInv
  <1> DEFINE restore == pairSetup.flags = {"split"}
  <1>3. restore \in BOOLEAN /\ (restore \/ ~accessorySetup.keep)
        /\ accessorySetup' \in GetSetupInfo(accessorySetup, restore)
    BY <1>1, <1>2
  <1> HIDE DEF restore
  <1>4. accessorySetup' = accessorySetup
    BY <1>2, <1>3 DEF GetSetupInfo
  <1>5. pairSetup.stage \in 0 .. 5 /\ pairSetup.secret \in BOOLEAN
    BY <1>2 DEF PairSetupState
  <1>6. /\ pairSetup' \in PairSetupState /\ pairSetup'.session = s /\ pairSetup'.code = pairSetup.code
        /\ pairSetup'.flags = pairSetup.flags /\ ~pairSetup'.keepSetupInfo
    <2> DEFINE b == pairSetup.secret \/ pairSetup.stage = 2
    <2>1. pairSetup.stage + 1 \in 0 .. 5 /\ b \in BOOLEAN
      BY <1>1, <1>5
    <2>2. pairSetup' = [pairSetup EXCEPT !.stage = pairSetup.stage + 1, !.secret = b]
      BY <1>1, <1>2 DEF PairSetupState
    <2> HIDE DEF b
    <2>3. QED
      BY <1>2, <2>1, <2>2 DEF PairSetupState
  <1>7. ProcedureFits(Procedure', paired', attempts')
    <2>1. \A t \in AllSessions :
              /\ setup[t].state >= 2 => pairSetup'.session = t
              /\ setup[t].state \in 2 .. 3 => attempts < MaxAttempts
              /\ setup[t].state \in 2 .. 4 => /\ ~paired
                                              /\ accessorySetup.code = pairSetup'.code
                                              /\ accessorySetup.keep => pairSetup'.flags = {"split"}
      BY <1>2, <1>6, ProcedureTyped DEF SetupInv
    <2>2. paired \in BOOLEAN
      BY DEF SetupInv, RestTyped
    <2>3. ProcedureFits([ps |-> pairSetup', as |-> accessorySetup, setup |-> setup], paired, attempts)
      BY <1>2, <1>6, <2>1, <2>2, ProcedureFitsAfter
    <2>4. QED
      BY <1>1, <1>4, <2>3 DEF Procedure
  <1>8. RestTyped'
    BY <1>1 DEF SetupInv, RestTyped
  <1>9. HolderIsOpen'
    BY <1>1, <1>2, <1>6 DEF SetupInv, HolderIsOpen, RestTyped
  <1>10. CodeIsShown' /\ CodeKept
    BY <1>1, <1>4 DEF SetupInv, CodeIsShown, CodeKept
  <1>11. GateStep
    BY <1>1, QuietSteps
  <1>12. QED
    BY <1>7, <1>8, <1>9, <1>10, <1>11 DEF SetupInv, StepFits

\* The right code lets the controller authenticate itself.
LEMMA AcceptedM4 ==
    ASSUME SetupInv, NEW s \in AllSessions, AcceptM4(s)
    PROVE  StepFits
  <1>1. /\ setup[s].state = 3
        /\ attempts' = 0
        /\ setup' = [setup EXCEPT ![s].state = 4]
        /\ inHandler' = NoSession /\ connection' = [connection EXCEPT ![s] = "reading"]
        /\ UNCHANGED <<paired, accessorySetup, pairSetup, transient, callbackTimer, server>>
    BY DEF AcceptM4, Answered
  <1>2. /\ pairSetup \in PairSetupState
        /\ setup \in [AllSessions -> SetupState]
        /\ pairSetup.session = s /\ ~pairSetup.keepSetupInfo
        /\ CodeFits(accessorySetup, paired) /\ accessorySetup.lock
        /\ ~paired
        /\ accessorySetup.code = pairSetup.code
        /\ accessorySetup.keep => pairSetup.flags = {"split"}
        /\ \A t \in AllSessions : setup[t].state \in 0 .. 5 /\ (setup[t].state >= 2 => t = s)
    BY <1>1, ProcedureTyped, PairSetupAssumption DEF SetupInv
  <1>3. /\ setup' \in [AllSessions -> SetupState]
        /\ \A t \in AllSessions : setup'[t].state = (IF t = s THEN 4 ELSE setup[t].state)
    BY <1>1, <1>2 DEF SetupState
  <1>4. ProcedureFits(Procedure', paired', attempts')
    <2>1. \A t \in AllSessions :
              /\ setup'[t].state >= 2 => pairSetup.session = t
              /\ setup'[t].state \in 2 .. 3 => 0 < MaxAttempts
              /\ setup'[t].state \in 2 .. 4 => /\ ~paired
                                               /\ accessorySetup.code = pairSetup.code
                                               /\ accessorySetup.keep => pairSetup.flags = {"split"}
      BY <1>2, <1>3, PairSetupAssumption
    <2>2. paired \in BOOLEAN
      BY DEF SetupInv, RestTyped
    <2>3. ProcedureFits([ps |-> pairSetup, as |-> accessorySetup, setup |-> setup'], paired, 0)
      BY <1>2, <1>3, <2>1, <2>2, ProcedureFitsAfter
    <2>4. QED
      BY <1>1, <2>3 DEF Procedure
  <1>5. RestTyped'
    BY <1>1, PairSetupAssumption DEF SetupInv, RestTyped
  <1>6. HolderIsOpen' /\ CodeIsShown' /\ CodeKept
    BY <1>1, <1>2 DEF SetupInv, HolderIsOpen, CodeIsShown, CodeKept, RestTyped
  <1>7. GateStep
    BY <1>1, RightCodeIsGate
  <1>8. QED
    BY <1>4, <1>5, <1>6, <1>7 DEF SetupInv, StepFits

\* Transient Pair Setup ends with M4; the code may be kept for Split Pair Setup.
LEMMA TransientlyAccepted ==
    ASSUME SetupInv, NEW s \in AllSessions, TransientM4(s)
    PROVE  StepFits
  <1> DEFINE keep == pairSetup.keepSetupInfo \/ "split" \in pairSetup.flags
             p1 == [Procedure EXCEPT !.ps.keepSetupInfo = keep]
  <1>1. PICK q \in ResetForSession(p1, s) : Become([q EXCEPT !.setup[s].state = 1])
    BY DEF TransientM4, Procedure
  <1>2. /\ setup[s].state = 3
        /\ attempts' = 0
        /\ transient' = transient \cup {s}
        /\ inHandler' = NoSession /\ connection' = [connection EXCEPT ![s] = "reading"]
        /\ UNCHANGED <<paired, callbackTimer, server>>
    BY DEF TransientM4, Answered
  <1>3. /\ pairSetup \in PairSetupState
        /\ setup \in [AllSessions -> SetupState]
        /\ pairSetup.session = s
        /\ CodeFits(accessorySetup, paired)
        /\ \A t \in AllSessions : setup[t].state \in 0 .. 5 /\ (setup[t].state >= 2 => t = s)
    BY <1>2, ProcedureTyped, PairSetupAssumption DEF SetupInv
  <1>4. paired \in BOOLEAN /\ keep \in BOOLEAN /\ p1.as = accessorySetup /\ p1.setup = setup
        /\ p1.ps = [pairSetup EXCEPT !.keepSetupInfo = keep]
        /\ p1 = [ps |-> p1.ps, as |-> p1.as, setup |-> p1.setup]
    BY <1>3 DEF SetupInv, RestTyped, Procedure, PairSetupState
  <1> HIDE DEF keep
  <1>5. p1.ps \in PairSetupState /\ p1.ps.session = s
    BY <1>3, <1>4 DEF PairSetupState
  <1>6. p1 \in Procedures
    BY <1>3, <1>4, <1>5 DEF Procedures, CodeFits
  <1> DEFINE p == Procedure
  <1>7. p.ps = pairSetup /\ p.as = accessorySetup /\ p.setup = setup
        /\ ProcedureFits(p, paired, attempts)
    BY DEF Procedure, SetupInv
  <1>a. /\ p1.as = p.as /\ p1.setup = p.setup /\ p1.ps.session = p.ps.session /\ p.ps.session = s
        /\ q \in ResetForSession(p1, s)
    BY <1>1, <1>3, <1>4, <1>5, <1>7
  <1> HIDE DEF p, p1
  <1>b. paired \in BOOLEAN
    BY <1>4
  <1>8. /\ ProcedureFits(q, paired, attempts)
        /\ q.setup = [p.setup EXCEPT ![s] = NoSetup]
        /\ q.ps = NoPairSetup
        /\ q.as.interfaces = p.as.interfaces
        /\ HasDisplay(p.as) /\ ~paired /\ Available(p.as) => Available(q.as)
    BY <1>6, <1>7, <1>a, <1>b, ResetFits
  <1>9. /\ pairSetup' = NoPairSetup /\ accessorySetup' = q.as
        /\ setup' = [q.setup EXCEPT ![s].state = 1]
        /\ q.setup \in [AllSessions -> SetupState]
    BY <1>1, <1>8, ProcedureTypes DEF Become, Procedures
  <1>10. /\ setup' \in [AllSessions -> SetupState]
         /\ \A t \in AllSessions : setup'[t].state < 2
    <2>1. \A t \in AllSessions : q.setup[t] = IF t = s THEN NoSetup ELSE setup[t]
      BY <1>3, <1>7, <1>8
    <2>2. \A t \in AllSessions : setup'[t] = IF t = s THEN [NoSetup EXCEPT !.state = 1] ELSE setup[t]
      BY <1>9, <2>1
    <2>3. [NoSetup EXCEPT !.state = 1] \in SetupState /\ [NoSetup EXCEPT !.state = 1].state < 2
      <3> DEFINE x == NoSetup
      <3>1. x \in SetupState
        BY NoPairSetupFits
      <3> HIDE DEF x
      <3>2. [x EXCEPT !.state = 1] \in SetupState /\ [x EXCEPT !.state = 1].state < 2
        BY <3>1 DEF SetupState
      <3>3. QED
        BY <3>2 DEF x
    <2>4. setup' \in [AllSessions -> SetupState]
      BY <1>9, <2>2, <2>3 DEF SetupState
    <2>5. \A t \in AllSessions : t # s => setup[t].state < 2
      BY <1>3
    <2>6. QED
      BY <2>2, <2>3, <2>4, <2>5
  <1>11. ProcedureFits(Procedure', paired', attempts')
    <2>1. CodeFits(accessorySetup', paired)
      BY <1>8, <1>9 DEF ProcedureFits
    <2>2. \A t \in AllSessions :
              /\ ~(setup'[t].state >= 2)
              /\ setup'[t].state \notin 2 .. 3
              /\ setup'[t].state \notin 2 .. 4
      BY <1>10 DEF SetupState
    <2>3. ProcedureFits([ps |-> NoPairSetup, as |-> accessorySetup', setup |-> setup'], paired, 0)
      BY <1>4, <1>10, <2>1, <2>2, NoPairSetupFits, ProcedureFitsAfter
    <2>4. QED
      BY <1>2, <1>9, <2>3 DEF Procedure
  <1>12. RestTyped'
    BY <1>2, PairSetupAssumption DEF SetupInv, RestTyped
  <1>13. HolderIsOpen'
    BY <1>9, NoPairSetupFits DEF HolderIsOpen
  <1>14. CodeIsShown'
    BY <1>2, <1>7, <1>8, <1>9 DEF SetupInv, CodeIsShown, HasDisplay
  <1>15. CodeKept
    BY <1>3, PairSetupAssumption DEF CodeKept
  <1>16. GateStep
    BY <1>2, RightCodeIsGate
  <1>17. QED
    BY <1>11, <1>12, <1>13, <1>14, <1>15, <1>16 DEF SetupInv, StepFits

-----------------------------------------------------------------------------
(* Requests *)

\* A failed assertion ends the process and changes nothing else.
LEMMA AbortFits ==
    ASSUME SetupInv, NEW assertion \in Assertions, Abort(assertion)
    PROVE  StepFits
  <1>1. /\ server' = assertion /\ server' # "running"
        /\ UNCHANGED <<paired, attempts, accessorySetup, pairSetup, setup, connection,
                       transient, inHandler, callbackTimer>>
    BY DEF Abort, Assertions
  <1>2. ProcedureFits(Procedure', paired', attempts')
    BY <1>1 DEF SetupInv, Procedure
  <1>3. RestTyped' /\ HolderIsOpen' /\ CodeIsShown' /\ CodeKept
    BY <1>1 DEF SetupInv, RestTyped, HolderIsOpen, CodeIsShown, CodeKept
  <1>4. GateStep
    BY <1>1, QuietSteps
  <1>5. QED
    BY <1>2, <1>3, <1>4 DEF SetupInv, StepFits

\* What every request over the session s does besides.
LEMMA RequestRest ==
    ASSUME SetupInv, NEW s \in AllSessions, MayWrite(s), CloseTransient(s),
           inHandler' \in {s, NoSession}, inHandler' = s => s \in IPSessions,
           paired' \in BOOLEAN, callbackTimer' \in BOOLEAN,
           UNCHANGED <<attempts, server>>,
           pairSetup'.session \in {pairSetup.session, s, NoSession}
    PROVE  RestTyped' /\ HolderIsOpen'
  <1>1. connection[s] = "reading" /\ s \notin transient
    BY DEF MayWrite
  <1>2. /\ transient' = transient \ ClosedBy(s)
        /\ connection' = [t \in AllSessions |-> IF t \in ClosedBy(s) THEN "closed" ELSE connection[t]]
        /\ ClosedBy(s) \subseteq transient
    BY DEF CloseTransient, ClosedBy
  <1>3. pairSetup.session \in AllSessions \cup {NoSession}
    BY ProcedureTyped DEF SetupInv
  <1>4. RestTyped'
    BY <1>2 DEF SetupInv, RestTyped
  <1>5. HolderIsOpen'
    <2>1. ASSUME NEW t \in AllSessions, t \notin transient, connection[t] # "closed"
          PROVE  connection'[t] # "closed" /\ t \notin transient'
      BY <1>2, <2>1
    <2>2. QED
      BY <1>1, <1>3, <2>1 DEF SetupInv, HolderIsOpen
  <1>6. QED
    BY <1>4, <1>5

LEMMA FirstMessage ==
    ASSUME SetupInv, NEW s \in AllSessions, WriteM1(s)
    PROVE  StepFits
  <1> DEFINE yes == TRUE
  <1>0. yes \in BOOLEAN
    OBVIOUS
  <1>1. PICK p \in WriteStarted(s, yes), method \in {"PairSetup", "PairSetupWithAuth"},
             flags \in SUBSET {"transient", "split"} :
          /\ p.setup[s].state = 0
          /\ Become([p EXCEPT !.setup[s].state = 1, !.setup[s].method = method,
                              !.ps.flags = IF p.ps.session = s THEN flags ELSE @])
    BY DEF WriteM1
  <1> HIDE DEF yes
  <1>2. /\ MayWrite(s) /\ CloseTransient(s) /\ inHandler' \in {s, NoSession}
        /\ inHandler' = s => s \in IPSessions
        /\ UNCHANGED <<paired, attempts, callbackTimer, server>>
    BY PairSetupAssumption DEF WriteM1, Written
  <1>3. paired \in BOOLEAN /\ pairSetup.session \notin transient /\ callbackTimer \in BOOLEAN
    BY PairSetupAssumption DEF SetupInv, RestTyped, HolderIsOpen
  <1>4. ProcedureFits(p, paired, attempts) /\ Continues(Procedure, p, s)
    BY <1>0, <1>1, <1>3, WriteStartedFits DEF SetupInv
  <1>5. p \in Procedures /\ p.ps \in PairSetupState /\ p.setup \in [AllSessions -> SetupState]
    BY <1>4, ProcedureTypes
  <1>6. /\ accessorySetup' = p.as
        /\ pairSetup' = [p.ps EXCEPT !.flags = IF p.ps.session = s THEN flags ELSE @]
        /\ setup' = [p.setup EXCEPT ![s] = [p.setup[s] EXCEPT !.state = 1, !.method = method]]
    BY <1>1, <1>5 DEF Become, Procedures
  <1>7. /\ pairSetup' \in PairSetupState /\ pairSetup'.session = p.ps.session
        /\ pairSetup'.code = p.ps.code /\ ~pairSetup'.keepSetupInfo
        /\ p.ps.session # s => pairSetup'.flags = p.ps.flags
    BY <1>4, <1>5, <1>6 DEF PairSetupState, ProcedureFits
  <1>8. /\ setup' \in [AllSessions -> SetupState]
        /\ setup'[s].state = 1
        /\ \A t \in AllSessions : t # s => setup'[t] = p.setup[t]
    <2>1. p.setup[s] \in SetupState
      BY <1>5
    <2> DEFINE m1 == [p.setup[s] EXCEPT !.state = 1, !.method = method]
    <2>3. m1 \in SetupState /\ m1.state = 1
      <3> DEFINE m0 == [p.setup[s] EXCEPT !.state = 1]
      <3>1. m0 \in SetupState /\ m0.state = 1
        BY <2>1 DEF SetupState
      <3>2. m1 = [m0 EXCEPT !.method = method]
        OBVIOUS
      <3> HIDE DEF m0, m1
      <3>3. QED
        BY <3>1, <3>2 DEF SetupState
    <2>4. setup' = [p.setup EXCEPT ![s] = m1]
      BY <1>6, Zenon
    <2> HIDE DEF m1
    <2>5. QED
      BY <1>5, <2>3, <2>4
  <1>9. ProcedureFits(Procedure', paired', attempts')
    <2>1. ASSUME NEW t \in AllSessions
          PROVE  /\ setup'[t].state >= 2 => pairSetup'.session = t
                 /\ setup'[t].state \in 2 .. 3 => attempts < MaxAttempts
                 /\ setup'[t].state \in 2 .. 4 => /\ ~paired
                                                  /\ p.as.code = pairSetup'.code
                                                  /\ p.as.keep => pairSetup'.flags = {"split"}
      <3>1. CASE t = s
        BY <1>8, <3>1
      <3>2. CASE t # s
        <4>1. p.setup[t].state \in 0 .. 5
          BY <1>5 DEF SetupState
        <4>2. QED
          BY <1>4, <1>7, <1>8, <3>2, <4>1 DEF ProcedureFits
      <3>3. QED
        BY <3>1, <3>2
    <2>2. CodeFits(p.as, paired) /\ (pairSetup'.session # NoSession => p.as.lock)
      BY <1>4, <1>7 DEF ProcedureFits
    <2>3. ProcedureFits([ps |-> pairSetup', as |-> p.as, setup |-> setup'], paired, attempts)
      BY <1>3, <1>7, <1>8, <2>1, <2>2, ProcedureFitsAfter
    <2>4. QED
      BY <1>2, <1>6, <2>3 DEF Procedure
  <1>10. RestTyped' /\ HolderIsOpen'
    <2>1. pairSetup'.session \in {pairSetup.session, s, NoSession}
      BY <1>4, <1>7 DEF Continues, Procedure
    <2>2. QED
      BY <1>2, <1>3, <2>1, RequestRest
  <1>11. CodeIsShown'
    BY <1>2, <1>4, <1>6 DEF SetupInv, CodeIsShown, Continues, Procedure, HasDisplay
  <1>12. CodeKept
    BY DEF CodeKept
  <1>13. GateStep
    <2>1. \A t \in AllSessions : setup'[t].state = 4 => setup[t].state = 4
      BY <1>4, <1>8, NoPairSetupFits DEF Continues, Procedure
    <2>2. QED
      BY <1>2, <2>1, QuietSteps
  <1>14. QED
    BY <1>9, <1>10, <1>11, <1>12, <1>13 DEF SetupInv, StepFits

LEMMA RefusedMessage ==
    ASSUME SetupInv, NEW s \in AllSessions, WriteRefused(s)
    PROVE  StepFits
  <1>1. PICK parsed \in BOOLEAN, isM1 \in BOOLEAN :
            \E p \in IF parsed THEN WriteStarted(s, isM1) ELSE {[Procedure EXCEPT !.setup = Remaining(s)]} :
                \E q \in ResetForSession(p, s) : Become(q)
    BY DEF WriteRefused
  <1>2. PICK p \in IF parsed THEN WriteStarted(s, isM1) ELSE {[Procedure EXCEPT !.setup = Remaining(s)]} :
            \E q \in ResetForSession(p, s) : Become(q)
    BY <1>1
  <1>3. PICK q \in ResetForSession(p, s) : Become(q)
    BY <1>2
  <1>4. /\ MayWrite(s) /\ CloseTransient(s) /\ inHandler' \in {s, NoSession}
        /\ inHandler' = NoSession
        /\ UNCHANGED <<paired, attempts, callbackTimer, server>>
    BY DEF WriteRefused, Refused
  <1>5. paired \in BOOLEAN /\ pairSetup.session \notin transient /\ callbackTimer \in BOOLEAN
    BY PairSetupAssumption DEF SetupInv, RestTyped, HolderIsOpen
  <1>6. ProcedureFits(p, paired, attempts) /\ Continues(Procedure, p, s)
    <2>1. CASE parsed
      BY <1>5, <2>1, WriteStartedFits DEF SetupInv
    <2>2. CASE ~parsed
      <3>1. p = [Procedure EXCEPT !.setup = Remaining(s)]
        BY <2>2
      <3>2. QED
        BY <1>5, <3>1, RemainingFits DEF SetupInv, Continues, Procedure
    <2>3. QED
      BY <2>1, <2>2
  <1>7. /\ ProcedureFits(q, paired, attempts)
        /\ q.setup = [p.setup EXCEPT ![s] = NoSetup]
        /\ q.ps.session \in {p.ps.session, NoSession}
        /\ q.as.interfaces = p.as.interfaces
        /\ HasDisplay(p.as) /\ ~paired /\ Available(p.as) => Available(q.as)
    BY <1>5, <1>6, ResetEndsIt
  <1>8. accessorySetup' = q.as /\ pairSetup' = q.ps /\ setup' = q.setup
        /\ p.setup \in [AllSessions -> SetupState]
    BY <1>3, <1>6, ProcedureTypes DEF Become
  <1>9. ProcedureFits(Procedure', paired', attempts')
    BY <1>3, <1>4, <1>7, BecomeFits
  <1>10. RestTyped' /\ HolderIsOpen'
    <2>1. pairSetup'.session \in {pairSetup.session, s, NoSession}
      BY <1>6, <1>7, <1>8 DEF Continues, Procedure
    <2>2. QED
      BY <1>4, <1>5, <2>1, PairSetupAssumption, RequestRest
  <1>11. CodeIsShown'
    BY <1>4, <1>6, <1>7, <1>8 DEF SetupInv, CodeIsShown, Continues, Procedure, HasDisplay
  <1>12. CodeKept
    BY DEF CodeKept
  <1>13. GateStep
    <2>1. \A t \in AllSessions : setup'[t].state = 4 => setup[t].state = 4
      BY <1>6, <1>7, <1>8, NoPairSetupFits DEF Continues, Procedure
    <2>2. QED
      BY <1>4, <2>1, QuietSteps
  <1>14. QED
    BY <1>9, <1>10, <1>11, <1>12, <1>13 DEF SetupInv, StepFits

\* The holder's next message; other sessions may be closed.
LEMMA NextMessage ==
    ASSUME SetupInv, NEW s \in AllSessions, setup[s].state >= 2, NEW entry \in SetupState,
           \E others \in {Remaining(s)} : setup' = [others EXCEPT ![s] = entry]
    PROVE  /\ setup' \in [AllSessions -> SetupState]
           /\ setup'[s] = entry
           /\ pairSetup.session = s
           /\ \A t \in AllSessions : t # s => setup'[t].state < 2 /\ setup[t].state < 2
  <1>1. pairSetup.session \notin transient
    BY PairSetupAssumption DEF SetupInv, RestTyped, HolderIsOpen
  <1>2. /\ setup \in [AllSessions -> SetupState]
        /\ pairSetup.session = s
        /\ \A t \in AllSessions : setup[t].state \in 0 .. 5 /\ (setup[t].state >= 2 => t = s)
    BY ProcedureTyped DEF SetupInv
  <1>3. /\ Remaining(s) \in [AllSessions -> SetupState]
        /\ \A t \in AllSessions : Remaining(s)[t] \in {setup[t], NoSetup}
    BY <1>2, NoPairSetupFits DEF Remaining
  <1>4. \A t \in AllSessions : t # s => setup[t].state < 2
    BY <1>2
  <1>5. \A t \in AllSessions : t # s => Remaining(s)[t].state < 2
    BY <1>3, <1>4, NoPairSetupFits
  <1>6. \A t \in AllSessions : setup'[t] = IF t = s THEN entry ELSE Remaining(s)[t]
    BY <1>3
  <1>7. QED
    BY <1>2, <1>3, <1>4, <1>5, <1>6

LEMMA ThirdMessage ==
    ASSUME SetupInv, NEW s \in AllSessions, WriteM3(s)
    PROVE  StepFits
  <1> DEFINE entry == [Remaining(s)[s] EXCEPT !.state = 3]
  <1>1. PICK guess \in Guesses : pairSetup' = [pairSetup EXCEPT !.guess = guess]
    BY DEF WriteM3
  <1>2. /\ MayWrite(s) /\ CloseTransient(s) /\ inHandler' \in {s, NoSession}
        /\ inHandler' = s => s \in IPSessions
        /\ UNCHANGED <<paired, attempts, accessorySetup, callbackTimer, server>>
        /\ setup[s].state = 2
        /\ setup' = [Remaining(s) EXCEPT ![s].state = 3]
    BY PairSetupAssumption DEF WriteM3, Written
  <1>3. paired \in BOOLEAN /\ pairSetup.session \notin transient /\ callbackTimer \in BOOLEAN
    BY PairSetupAssumption DEF SetupInv, RestTyped, HolderIsOpen
  <1>4. /\ pairSetup \in PairSetupState
        /\ setup \in [AllSessions -> SetupState]
        /\ ~pairSetup.keepSetupInfo
        /\ CodeFits(accessorySetup, paired) /\ accessorySetup.lock
        /\ attempts < MaxAttempts /\ ~paired
        /\ accessorySetup.code = pairSetup.code
        /\ accessorySetup.keep => pairSetup.flags = {"split"}
    BY <1>2, ProcedureTyped, PairSetupAssumption DEF SetupInv
  <1>5. entry \in SetupState /\ entry.state = 3
    <2>1. Remaining(s)[s] = setup[s]
      BY DEF Remaining, ClosedBy
    <2>2. QED
      BY <1>4, <2>1 DEF SetupState
  <1>6. \E others \in {Remaining(s)} : setup' = [others EXCEPT ![s] = entry]
    BY <1>2
  <1>a. setup[s].state >= 2
    BY <1>2
  <1> HIDE DEF entry
  <1>7. /\ setup' \in [AllSessions -> SetupState]
        /\ setup'[s] = entry
        /\ pairSetup.session = s
        /\ \A t \in AllSessions : t # s => setup'[t].state < 2 /\ setup[t].state < 2
    BY <1>5, <1>6, <1>a, NextMessage
  <1>8. /\ pairSetup' \in PairSetupState /\ pairSetup'.session = s /\ ~pairSetup'.keepSetupInfo
        /\ pairSetup'.code = pairSetup.code /\ pairSetup'.flags = pairSetup.flags
    BY <1>1, <1>4, <1>7 DEF PairSetupState
  <1>9. ProcedureFits(Procedure', paired', attempts')
    <2>1. \A t \in AllSessions :
              /\ setup'[t].state >= 2 => pairSetup'.session = t
              /\ setup'[t].state \in 2 .. 3 => attempts < MaxAttempts
              /\ setup'[t].state \in 2 .. 4 => /\ ~paired
                                               /\ accessorySetup.code = pairSetup'.code
                                               /\ accessorySetup.keep => pairSetup'.flags = {"split"}
      <3>1. \A t \in AllSessions : setup'[t].state \in 0 .. 5
        BY <1>7 DEF SetupState
      <3>2. QED
        BY <1>4, <1>7, <1>8, <3>1
    <2>2. ProcedureFits([ps |-> pairSetup', as |-> accessorySetup, setup |-> setup'], paired, attempts)
      BY <1>3, <1>4, <1>7, <1>8, <2>1, ProcedureFitsAfter
    <2>3. QED
      BY <1>2, <2>2 DEF Procedure
  <1>10. RestTyped' /\ HolderIsOpen'
    BY <1>2, <1>3, <1>8, RequestRest
  <1>11. CodeIsShown' /\ CodeKept
    BY <1>2 DEF SetupInv, CodeIsShown, CodeKept
  <1>12. GateStep
    <2>1. \A t \in AllSessions : setup'[t].state # 4
      <3>1. \A t \in AllSessions : setup'[t].state \in 0 .. 5
        BY <1>7 DEF SetupState
      <3>2. QED
        BY <1>5, <1>7, <3>1
    <2>2. QED
      BY <1>2, <2>1, QuietSteps
  <1>13. QED
    BY <1>9, <1>10, <1>11, <1>12 DEF SetupInv, StepFits

\* The pairing is stored for the controller that has proved the code.
LEMMA FifthMessage ==
    ASSUME SetupInv, NEW s \in AllSessions, WriteM5(s)
    PROVE  StepFits
  <1>1. CASE Abort("PairSetupM5")
    BY <1>1, AbortFits DEF Assertions
  <1>2. CASE ~Abort("PairSetupM5")
    <2>1. PICK authentic \in BOOLEAN :
            /\ setup' = [Remaining(s) EXCEPT ![s].state = 5, ![s].error = ~authentic]
            /\ paired' = (paired \/ authentic)
            /\ callbackTimer' = (callbackTimer \/ paired' # paired)
            /\ Written(s)
            /\ CloseTransient(s)
            /\ UNCHANGED <<attempts, accessorySetup, pairSetup, server>>
      BY <1>2 DEF WriteM5
    <2> DEFINE e0 == [Remaining(s)[s] EXCEPT !.state = 5]
               entry == [e0 EXCEPT !.error = ~authentic]
               R == Remaining(s)
    <2>2. /\ MayWrite(s) /\ setup[s].state = 4
          /\ inHandler' \in {s, NoSession} /\ (inHandler' = s => s \in IPSessions)
      BY <2>1, PairSetupAssumption DEF WriteM5, Written
    <2>3. paired \in BOOLEAN /\ pairSetup.session \notin transient
          /\ callbackTimer' \in BOOLEAN /\ paired' \in BOOLEAN
      BY <2>1, PairSetupAssumption DEF SetupInv, RestTyped, HolderIsOpen
    <2>4. /\ pairSetup \in PairSetupState
          /\ setup \in [AllSessions -> SetupState]
          /\ ~pairSetup.keepSetupInfo
          /\ CodeFits(accessorySetup, paired) /\ accessorySetup.lock
          /\ ~paired
      BY <2>2, ProcedureTyped, PairSetupAssumption DEF SetupInv
    <2>5. e0 \in SetupState /\ e0.state = 5 /\ R \in [AllSessions -> SetupState]
      <3>1. R[s] = setup[s] /\ R \in [AllSessions -> SetupState]
        BY <2>4, NoPairSetupFits DEF Remaining, ClosedBy
      <3>2. QED
        BY <2>4, <3>1 DEF SetupState
    <2>6. entry \in SetupState /\ entry.state = 5
      <3> HIDE DEF e0
      <3>1. QED
        BY <2>5 DEF SetupState
    <2>7. \E others \in {Remaining(s)} : setup' = [others EXCEPT ![s] = entry]
      <3>1. setup' = [[R EXCEPT ![s] = e0] EXCEPT ![s] = [[R EXCEPT ![s] = e0][s] EXCEPT !.error = ~authentic]]
        BY <2>1
      <3> HIDE DEF R, e0
      <3>2. [R EXCEPT ![s] = e0][s] = e0
        BY <2>5
      <3>3. setup' = [[R EXCEPT ![s] = e0] EXCEPT ![s] = entry]
        BY <3>1, <3>2
      <3> HIDE DEF entry
      <3>4. setup' = [R EXCEPT ![s] = entry]
        BY <2>5, <3>3
      <3>5. QED
        BY <3>4 DEF R
    <2>a. setup[s].state >= 2
      BY <2>2
    <2> HIDE DEF entry, e0, R
    <2>8. /\ setup' \in [AllSessions -> SetupState]
          /\ setup'[s] = entry
          /\ pairSetup.session = s
          /\ \A t \in AllSessions : t # s => setup'[t].state < 2 /\ setup[t].state < 2
      BY <2>6, <2>7, <2>a, NextMessage
    <2>9. CodeFits(accessorySetup, paired')
      BY <2>4 DEF CodeFits
    <2>10. ProcedureFits(Procedure', paired', attempts')
      <3>1. \A t \in AllSessions : setup'[t].state \in 0 .. 5
        BY <2>8 DEF SetupState
      <3>2. \A t \in AllSessions : /\ setup'[t].state >= 2 => pairSetup.session = t
                                   /\ setup'[t].state \notin 2 .. 3
                                   /\ setup'[t].state \notin 2 .. 4
        BY <2>6, <2>8, <3>1
      <3>3. ProcedureFits([ps |-> pairSetup, as |-> accessorySetup, setup |-> setup'], paired', attempts)
        BY <2>3, <2>4, <2>8, <2>9, <3>2, ProcedureFitsAfter
      <3>4. QED
        BY <2>1, <3>3 DEF Procedure
    <2>11. RestTyped' /\ HolderIsOpen'
      BY <2>1, <2>2, <2>3, RequestRest
    <2>12. CodeIsShown' /\ CodeKept
      BY <2>1, <2>4 DEF CodeIsShown, CodeKept, CodeFits
    <2>13. GateStep
      <3>1. Authenticated /\ ~Authenticated'
        BY <2>2, <2>6, <2>8 DEF Authenticated
      <3>2. CASE authentic
        BY <2>1, <2>4, <3>1, <3>2 DEF GateStep, Gate!Next, Gate!Pair, Authenticated
      <3>3. CASE ~authentic
        <4>1. paired' = paired
          BY <2>1, <2>3, <3>3
        <4>2. QED
          BY <2>1, <3>1, <4>1 DEF GateStep, Gate!Next, Gate!Abandon, Authenticated
      <3>4. QED
        BY <3>2, <3>3
    <2>14. QED
      BY <2>10, <2>11, <2>12, <2>13 DEF SetupInv, StepFits
  <1>3. QED
    BY <1>1, <1>2

-----------------------------------------------------------------------------
(* The setup code, connections and the accessory server *)

\* A step that leaves the procedure alone, and a locked code too.
LEMMA CodeStep ==
    ASSUME SetupInv, NEW a, accessorySetup' = a, CodeFits(a, paired),
           accessorySetup.lock => /\ a.lock
                                  /\ a.code = accessorySetup.code
                                  /\ a.keep = accessorySetup.keep,
           UNCHANGED <<paired, attempts, pairSetup, setup, connection, transient, inHandler>>,
           callbackTimer' \in BOOLEAN, server' \in {"running", "idle"} \cup Assertions,
           server' = "running" /\ HasDisplay(a) /\ ~paired
                => Available(a) \/ callbackTimer'
    PROVE  StepFits
  <1>1. /\ pairSetup \in PairSetupState
        /\ setup \in [AllSessions -> SetupState]
        /\ ~pairSetup.keepSetupInfo
        /\ CodeFits(accessorySetup, paired)
        /\ pairSetup.session # NoSession => accessorySetup.lock
        /\ paired \in BOOLEAN
    BY ProcedureTyped DEF SetupInv, RestTyped
  <1>2. ProcedureFits(Procedure', paired', attempts')
    <2>1. \A t \in AllSessions :
              /\ setup[t].state >= 2 => pairSetup.session = t
              /\ setup[t].state \in 2 .. 3 => attempts < MaxAttempts
              /\ setup[t].state \in 2 .. 4 => /\ ~paired
                                              /\ a.code = pairSetup.code
                                              /\ a.keep => pairSetup.flags = {"split"}
      <3>1. \A t \in AllSessions : setup[t].state \in 2 .. 4 => accessorySetup.lock
        BY <1>1, ProcedureTyped, PairSetupAssumption DEF SetupInv
      <3>2. QED
        BY <3>1, ProcedureTyped DEF SetupInv
    <2>2. ProcedureFits([ps |-> pairSetup, as |-> a, setup |-> setup], paired, attempts)
      BY <1>1, <2>1, ProcedureFitsAfter
    <2>3. QED
      BY <2>2 DEF Procedure
  <1>3. RestTyped' /\ HolderIsOpen' /\ CodeIsShown'
    BY DEF SetupInv, RestTyped, HolderIsOpen, CodeIsShown
  <1>4. CodeKept
    BY <1>1 DEF CodeKept, CodeFits
  <1>5. GateStep
    BY QuietSteps
  <1>6. QED
    BY <1>2, <1>3, <1>4, <1>5 DEF SetupInv, StepFits

\* What the invariant says of the setup code alone.
LEMMA CodeFacts ==
    ASSUME SetupInv
    PROVE  /\ CodeFits(accessorySetup, paired) /\ paired \in BOOLEAN
           /\ accessorySetup.lock => Available(accessorySetup)
           /\ server \in {"running", "idle"} \cup Assertions
           /\ callbackTimer \in BOOLEAN
           /\ server = "running" /\ HasDisplay(accessorySetup) /\ ~paired
                => Available(accessorySetup) \/ callbackTimer
  BY ProcedureTyped DEF SetupInv, RestTyped, CodeFits, CodeIsShown

LEMMA TimersFit ==
    ASSUME SetupInv, ExpireCode \/ RefreshCode
    PROVE  StepFits
  <1>1. CASE ExpireCode
    <2>1. PICK a \in Expired(accessorySetup) : accessorySetup' = a
      BY <1>1 DEF ExpireCode, SetupInfoStep
    <2>2. /\ CodeFits(a, paired) /\ a.interfaces = accessorySetup.interfaces
          /\ HasDisplay(accessorySetup) => Available(a)
          /\ ~accessorySetup.lock
      BY <1>1, <2>1, CodeFacts, ExpiredFits DEF ExpireCode
    <2>3. QED
      BY <1>1, <2>1, <2>2, CodeFacts, CodeStep DEF ExpireCode, SetupInfoStep, HasDisplay
  <1>2. CASE RefreshCode
    <2>1. PICK a \in Refreshed(accessorySetup) : accessorySetup' = a
      BY <1>2 DEF RefreshCode, SetupInfoStep
    <2>2. /\ CodeFits(a, paired) /\ a.interfaces = accessorySetup.interfaces
          /\ accessorySetup.lock => a = accessorySetup
          /\ Available(accessorySetup) => Available(a)
      BY <2>1, CodeFacts, RefreshedFits
    <2>3. QED
      BY <1>2, <2>1, <2>2, CodeFacts, CodeStep DEF RefreshCode, SetupInfoStep, HasDisplay
  <1>3. QED
    BY <1>1, <1>2

LEMMA NFCFits ==
    ASSUME SetupInv, EnterNFC \/ ExitNFC
    PROVE  StepFits
  <1>1. CASE EnterNFC
    <2>1. PICK a \in EnteredNFC(accessorySetup) : accessorySetup' = a
      BY <1>1 DEF EnterNFC, SetupInfoStep
    <2>2. paired = FALSE
      BY <1>1, CodeFacts DEF EnterNFC
    <2>3. CodeFits(accessorySetup, FALSE)
      BY <2>2, CodeFacts
    <2>4. /\ CodeFits(a, FALSE) /\ Available(a)
          /\ accessorySetup.lock => a.lock /\ a.code = accessorySetup.code /\ a.keep = accessorySetup.keep
      BY <2>1, <2>3, EnteredNFCFits
    <2>5. CodeFits(a, paired)
      BY <2>2, <2>4
    <2>6. QED
      BY <1>1, <2>1, <2>4, <2>5, CodeFacts, CodeStep DEF EnterNFC, SetupInfoStep
  <1>2. CASE ExitNFC
    <2> DEFINE a == ExitedNFC(accessorySetup)
    <2>1. accessorySetup' = a
      BY <1>2 DEF ExitNFC, SetupInfoStep
    <2>2. /\ CodeFits(a, paired) /\ a.interfaces = accessorySetup.interfaces
          /\ Available(accessorySetup) /\ HasDisplay(accessorySetup) => Available(a)
          /\ accessorySetup.lock => a.lock /\ a.code = accessorySetup.code /\ a.keep = accessorySetup.keep
      BY CodeFacts, ExitedNFCFits
    <2>3. /\ server = "running" /\ server' \in {server, "Synchronize"}
          /\ UNCHANGED <<paired, attempts, pairSetup, setup, connection, transient, inHandler, callbackTimer>>
      BY <1>2 DEF ExitNFC, SetupInfoStep, Dispatching
    <2> HIDE DEF a
    <2>4. QED
      BY <2>1, <2>2, <2>3, CodeFacts, CodeStep DEF HasDisplay, Assertions
  <1>3. QED
    BY <1>1, <1>2

LEMMA LegacyFits ==
    ASSUME SetupInv, EnterLegacyMode
    PROVE  StepFits
  <1>1. PICK a \in Prepared(accessorySetup, FALSE) : accessorySetup' = a
    BY DEF EnterLegacyMode, SetupInfoStep
  <1>2. paired = FALSE
    BY CodeFacts DEF EnterLegacyMode
  <1>3. CodeFits(accessorySetup, FALSE)
    BY <1>2, CodeFacts
  <1>4. /\ CodeFits(a, FALSE) /\ Available(a)
        /\ accessorySetup.lock => a.lock
        /\ Available(accessorySetup) => a.code = accessorySetup.code /\ a.keep = accessorySetup.keep
    BY <1>1, <1>3, PreparedToShow
  <1>5. CodeFits(a, paired)
    BY <1>2, <1>4
  <1>6. QED
    BY <1>1, <1>4, <1>5, CodeFacts, CodeStep DEF EnterLegacyMode, SetupInfoStep

\* Codes for a display are prepared when the server starts and when the last
\* pairing is gone.
LEMMA ResumeFits ==
    ASSUME SetupInv, accessorySetup' \in Resumed(accessorySetup, paired),
           callbackTimer' \in BOOLEAN, server' \in {"running", "idle"} \cup Assertions,
           UNCHANGED <<paired, attempts, pairSetup, setup, connection, transient, inHandler>>
    PROVE  StepFits
  <1>1. PICK a \in Resumed(accessorySetup, paired) : accessorySetup' = a
    OBVIOUS
  <1>2. /\ CodeFits(a, paired) /\ a.interfaces = accessorySetup.interfaces
        /\ accessorySetup.lock => a.lock
        /\ Available(accessorySetup) => a.code = accessorySetup.code /\ a.keep = accessorySetup.keep
        /\ HasDisplay(accessorySetup) /\ ~paired => Available(a)
    BY <1>1, CodeFacts, ResumedFits
  <1>3. QED
    BY <1>1, <1>2, CodeFacts, CodeStep DEF HasDisplay

LEMMA ServerFits ==
    ASSUME SetupInv, Start \/ StateUpdate
    PROVE  StepFits
  <1>1. CASE Start
    BY <1>1, ResumeFits DEF Start
  <1>2. CASE StateUpdate /\ ~paired
    BY <1>2, ResumeFits DEF StateUpdate, Dispatching
  <1>3. CASE StateUpdate /\ paired /\ ~accessorySetup.nfcTimer
    BY <1>3, CodeFacts, CodeStep DEF StateUpdate
  <1>4. CASE StateUpdate /\ paired /\ accessorySetup.nfcTimer
    <2> DEFINE a == ExitedNFC(accessorySetup)
    <2>1. accessorySetup' = a
      BY <1>4 DEF StateUpdate
    <2>2. /\ CodeFits(a, paired) /\ a.interfaces = accessorySetup.interfaces
          /\ accessorySetup.lock => a.lock /\ a.code = accessorySetup.code /\ a.keep = accessorySetup.keep
      BY CodeFacts, ExitedNFCFits
    <2>3. /\ server = "running" /\ server' \in {server, "Synchronize"} /\ callbackTimer' = FALSE
          /\ UNCHANGED <<paired, attempts, pairSetup, setup, connection, transient, inHandler>>
      BY <1>4 DEF StateUpdate, Dispatching
    <2> HIDE DEF a
    <2>4. QED
      BY <1>4, <2>1, <2>2, <2>3, CodeFacts, CodeStep DEF Assertions
  <1>5. QED
    BY <1>1, <1>2, <1>3, <1>4

\* The accessory server ends, or the process does.
LEMMA EndFits ==
    ASSUME SetupInv, Stop \/ Crash
    PROVE  StepFits
  <1>1. /\ server' = "idle" /\ UNCHANGED <<paired, attempts>>
        /\ accessorySetup' = NoSetupInfo(accessorySetup.interfaces)
        /\ \/ Stop /\ UNCHANGED <<pairSetup, setup, connection, transient, inHandler, callbackTimer>>
           \/ /\ pairSetup' = NoPairSetup
              /\ setup' = [s \in AllSessions |-> NoSetup]
              /\ connection' = [s \in AllSessions |-> "closed"]
              /\ transient' = {} /\ inHandler' = NoSession /\ callbackTimer' = FALSE
    BY DEF Stop, Crash
  <1>2. /\ accessorySetup \in AccessorySetup /\ paired \in BOOLEAN
        /\ CodeFits(accessorySetup', paired)
    BY <1>1, ProcedureTyped, NoSetupInfoFits DEF SetupInv, RestTyped
  <1>3. /\ pairSetup' \in PairSetupState /\ pairSetup'.session = NoSession
        /\ ~pairSetup'.keepSetupInfo
        /\ setup' \in [AllSessions -> SetupState]
        /\ \A t \in AllSessions : setup'[t].state < 2
    <2>1. CASE UNCHANGED <<pairSetup, setup>> /\ Stop
      <3>1. pairSetup.session = NoSession
        BY <2>1, ProcedureTyped DEF Stop, SetupInv, HolderIsOpen
      <3>2. QED
        BY <2>1, <3>1, ProcedureTyped, PairSetupAssumption DEF SetupInv
    <2>2. CASE pairSetup' = NoPairSetup /\ setup' = [s \in AllSessions |-> NoSetup]
      BY <2>2, NoPairSetupFits
    <2>3. QED
      BY <1>1, <2>1, <2>2
  <1>4. ProcedureFits(Procedure', paired', attempts')
    <2>1. \A t \in AllSessions : /\ ~(setup'[t].state >= 2)
                                 /\ setup'[t].state \notin 2 .. 3
                                 /\ setup'[t].state \notin 2 .. 4
      BY <1>3 DEF SetupState
    <2>2. ProcedureFits([ps |-> pairSetup', as |-> accessorySetup', setup |-> setup'], paired, attempts)
      BY <1>2, <1>3, <2>1, ProcedureFitsAfter
    <2>3. QED
      BY <1>1, <2>2 DEF Procedure
  <1>5. RestTyped'
    BY <1>1 DEF SetupInv, RestTyped
  <1>6. HolderIsOpen' /\ CodeIsShown' /\ CodeKept
    BY <1>1, <1>3 DEF HolderIsOpen, CodeIsShown, CodeKept
  <1>7. GateStep
    BY <1>1, <1>3, QuietSteps
  <1>8. QED
    BY <1>4, <1>5, <1>6, <1>7 DEF SetupInv, StepFits

LEMMA UnpairFits ==
    ASSUME SetupInv, Unpair
    PROVE  StepFits
  <1>1. /\ paired /\ paired' = FALSE /\ callbackTimer' = TRUE
        /\ UNCHANGED <<attempts, accessorySetup, pairSetup, setup, connection, transient,
                       inHandler, server>>
    BY DEF Unpair
  <1>2. ProcedureFits(Procedure', paired', attempts')
    <2>1. CodeFits(accessorySetup, FALSE)
      BY CodeFacts DEF CodeFits
    <2>2. ProcedureFits([ps |-> pairSetup, as |-> accessorySetup, setup |-> setup], FALSE, attempts)
      BY <1>1, <2>1, ProcedureTyped, ProcedureFitsAfter DEF SetupInv
    <2>3. QED
      BY <1>1, <2>2 DEF Procedure
  <1>3. RestTyped' /\ HolderIsOpen' /\ CodeIsShown' /\ CodeKept
    BY <1>1 DEF SetupInv, RestTyped, HolderIsOpen, CodeIsShown, CodeKept
  <1>4. GateStep
    BY <1>1 DEF GateStep, Gate!Next, Gate!Unpair, Authenticated
  <1>5. QED
    BY <1>2, <1>3, <1>4 DEF SetupInv, StepFits

\* A new connection; the scratch buffer is used by another session; time passes.
LEMMA OthersFit ==
    ASSUME SetupInv, (\E s \in AllSessions : Connect(s) \/ LongRequest(s)) \/ Timeout
    PROVE  StepFits
  <1>1. /\ UNCHANGED <<paired, attempts, accessorySetup, setup, transient, inHandler,
                       callbackTimer, server>>
        /\ \/ /\ connection' = connection
              /\ \/ pairSetup' = [pairSetup EXCEPT !.secret = FALSE]
                 \/ pairSetup' = [pairSetup EXCEPT !.expired = TRUE]
           \/ /\ \E s \in AllSessions : connection' = [connection EXCEPT ![s] = "reading"]
              /\ pairSetup' = pairSetup
    BY DEF Connect, LongRequest, Timeout
  <1>2. /\ pairSetup' \in PairSetupState /\ pairSetup'.session = pairSetup.session
        /\ pairSetup'.code = pairSetup.code /\ pairSetup'.flags = pairSetup.flags
        /\ ~pairSetup'.keepSetupInfo
    BY <1>1, ProcedureTyped DEF SetupInv, PairSetupState
  <1>3. ProcedureFits(Procedure', paired', attempts')
    <2>1. ProcedureFits([ps |-> pairSetup', as |-> accessorySetup, setup |-> setup], paired, attempts)
      BY <1>2, CodeFacts, ProcedureTyped, ProcedureFitsAfter DEF SetupInv
    <2>2. QED
      BY <1>1, <2>1 DEF Procedure
  <1>4. RestTyped' /\ HolderIsOpen'
    <2>1. /\ connection' \in [AllSessions -> {"closed", "reading", "processing"}]
          /\ \A t \in AllSessions : connection[t] # "closed" => connection'[t] # "closed"
      BY <1>1 DEF SetupInv, RestTyped
    <2>2. RestTyped'
      BY <1>1, <2>1 DEF SetupInv, RestTyped
    <2>3. pairSetup.session \in AllSessions \cup {NoSession}
      BY ProcedureTyped DEF SetupInv
    <2>4. HolderIsOpen'
      BY <1>1, <1>2, <2>1, <2>3 DEF SetupInv, HolderIsOpen
    <2>5. QED
      BY <2>2, <2>4
  <1>5. CodeIsShown' /\ CodeKept
    BY <1>1 DEF SetupInv, CodeIsShown, CodeKept
  <1>6. GateStep
    BY <1>1, QuietSteps
  <1>7. QED
    BY <1>3, <1>4, <1>5, <1>6 DEF SetupInv, StepFits

-----------------------------------------------------------------------------
(* Every step *)

LEMMA InitFits ==
    ASSUME Init
    PROVE  SetupInv /\ ~paired /\ attempts = 0 /\ ~Authenticated
  <1>1. PICK interfaces \in Platforms : accessorySetup = NoSetupInfo(interfaces)
    BY DEF Init
  <1>2. /\ paired = FALSE /\ attempts = 0 /\ pairSetup = NoPairSetup
        /\ setup = [s \in AllSessions |-> NoSetup]
        /\ connection = [s \in AllSessions |-> "closed"]
        /\ transient = {} /\ inHandler = NoSession /\ callbackTimer = FALSE /\ server = "idle"
    BY DEF Init
  <1>3. CodeFits(accessorySetup, FALSE)
    BY <1>1 DEF NoSetupInfo, AccessorySetup, CodeFits, Available
  <1>4. /\ setup \in [AllSessions -> SetupState]
        /\ \A t \in AllSessions : setup[t].state = 0
    BY <1>2, NoPairSetupFits
  <1>5. ProcedureFits(Procedure, paired, attempts)
    <2>1. \A t \in AllSessions : /\ ~(setup[t].state >= 2)
                                 /\ setup[t].state \notin 2 .. 3
                                 /\ setup[t].state \notin 2 .. 4
      BY <1>4
    <2>2. ProcedureFits([ps |-> pairSetup, as |-> accessorySetup, setup |-> setup], FALSE, attempts)
      BY <1>2, <1>3, <1>4, <2>1, NoPairSetupFits, ProcedureFitsAfter
    <2>3. QED
      BY <1>2, <2>2 DEF Procedure
  <1>6. RestTyped /\ HolderIsOpen /\ CodeIsShown
    <2>1. 0 \in 0 .. MaxAttempts
      BY PairSetupAssumption
    <2>2. RestTyped
      BY <1>2, <2>1 DEF RestTyped
    <2>3. HolderIsOpen
      BY <1>2, NoPairSetupFits DEF HolderIsOpen
    <2>4. CodeIsShown
      BY <1>2 DEF CodeIsShown
    <2>5. QED
      BY <2>2, <2>3, <2>4
  <1>7. QED
    BY <1>2, <1>4, <1>5, <1>6 DEF SetupInv, Authenticated

LEMMA ReadsFit ==
    ASSUME SetupInv, NEW s \in AllSessions, Read(s)
    PROVE  StepFits
  <1>1. CASE RefuseM2(s) \/ ReadUnexpected(s)
    BY <1>1, RefusedReads
  <1>2. CASE ReadM6(s)
    <2>1. Abort("PairSetupM6") \/ ReadReset(s)
      BY <1>2 DEF ReadM6
    <2>2. QED
      BY <1>2, <2>1, AbortFits, RefusedReads DEF Assertions
  <1>3. QED
    BY <1>1, <1>2, AcceptedM2, WaitingReads, RejectedReads, FailedReads, AcceptedM4,
       TransientlyAccepted DEF Read

LEMMA SessionsFit ==
    ASSUME SetupInv, NEW s \in AllSessions, SessionStep(s)
    PROVE  StepFits
  <1>1. CASE Write(s)
    BY <1>1, FirstMessage, ThirdMessage, FifthMessage, RefusedMessage DEF Write
  <1>2. CASE TransientWhilePaired(s)
    BY <1>2, AbortFits DEF TransientWhilePaired, Assertions
  <1>3. QED
    BY <1>1, <1>2, ReadsFit, DisconnectFits, OthersFit DEF SessionStep

LEMMA NextFits ==
    ASSUME SetupInv, [Next]_vars
    PROVE  SetupInv' /\ GateStep /\ (UNCHANGED vars \/ CodeKept)
  <1>1. CASE Next
    <2>1. StepFits
      BY <1>1, SessionsFit, ServerFits, EndFits, UnpairFits, OthersFit, TimersFit, NFCFits,
         LegacyFits DEF Next
    <2>2. QED
      BY <2>1 DEF StepFits
  <1>2. CASE UNCHANGED vars
    <2>1. ProcedureFits(Procedure', paired', attempts')
      BY <1>2 DEF vars, SetupInv, Procedure
    <2>2. RestTyped' /\ HolderIsOpen' /\ CodeIsShown'
      BY <1>2 DEF vars, SetupInv, RestTyped, HolderIsOpen, CodeIsShown
    <2>3. GateStep
      BY <1>2, QuietSteps DEF vars
    <2>4. QED
      BY <1>2, <2>1, <2>2, <2>3 DEF SetupInv
  <1>3. QED
    BY <1>1, <1>2

LEMMA SetupInvariant == Spec => []SetupInv
  <1>1. Init => SetupInv
    BY InitFits
  <1>2. SetupInv /\ [Next]_vars => SetupInv'
    BY NextFits
  <1>3. QED
    BY <1>1, <1>2, PTL DEF Spec

\* A session that has been answered M2 holds the procedure until it ends
\* (HAPPairingPairSetup.c): whoever takes over, closes or resets it takes its
\* state away as well. The theorem holds for every transport.
THEOREM HolderStaysCurrent == Spec => []ProcedureIsCurrent
  <1>1. SetupInv => ProcedureIsCurrent
    <2> SUFFICES ASSUME SetupInv PROVE ProcedureIsCurrent
      OBVIOUS
    <2>1. WellTyped
      BY ProcedureTyped DEF SetupInv, RestTyped, WellTyped
    <2>2. QED
      BY <2>1, ProcedureTyped DEF SetupInv, ProcedureIsCurrent
  <1>2. QED
    BY <1>1, SetupInvariant, PTL

\* Neither timers nor the application nor NFC nor another session change the code
\* that a controller is proving, and a code that was kept waits for the next
\* attempt (HAPAccessorySetupInfo.c).
THEOREM CodeStaysStable == Spec => CodeIsStable
  <1> DEFINE Stable ==
                /\ \A s \in AllSessions :
                     server' = "running" /\ setup'[s].state \in 2 .. 4
                         => accessorySetup'.lock /\ accessorySetup'.code = pairSetup'.code
                /\ accessorySetup.keep /\ accessorySetup'.code # accessorySetup.code
                     => \/ pairSetup.session # NoSession
                        \/ \E s \in AllSessions : WriteM1(s) \/ WriteRefused(s)
                        \/ server' # "running"
  <1>1. SetupInv /\ [Next]_vars => [Stable]_vars
    <2> SUFFICES ASSUME SetupInv, [Next]_vars, ~UNCHANGED vars PROVE Stable
      OBVIOUS
    <2>1. SetupInv' /\ CodeKept
      BY NextFits
    <2>2. ASSUME NEW s \in AllSessions, setup'[s].state \in 2 .. 4
          PROVE  accessorySetup'.lock /\ accessorySetup'.code = pairSetup'.code
      <3> DEFINE p == Procedure'
      <3>1. ProcedureFits(p, paired', attempts') /\ p.ps = pairSetup' /\ p.as = accessorySetup'
            /\ p.setup = setup'
        BY <2>1 DEF SetupInv, Procedure
      <3> HIDE DEF p
      <3>2. p.ps.session = s /\ p.as.code = p.ps.code
        BY <2>2, <3>1 DEF ProcedureFits
      <3>3. QED
        BY <3>1, <3>2, PairSetupAssumption DEF ProcedureFits
    <2>3. QED
      BY <2>1, <2>2 DEF CodeKept
  <1>2. QED
    BY <1>1, SetupInvariant, PTL DEF Spec, CodeIsStable

\* Messages, stages, time-outs, several sessions, crashes: a controller gets in
\* only as SetupGate allows (kHAPPairing_PairSetupMaxAttempts and the order of M1
\* to M6 in HAPPairingPairSetup.c).
THEOREM SetupIsGate == Spec => ImplementsGate
  <1>1. Init => Gate!Init
    BY InitFits DEF Gate!Init, Authenticated
  <1>2. SetupInv /\ [Next]_vars => [Gate!Next]_<<paired, attempts, \E s \in AllSessions : setup[s].state = 4>>
    BY NextFits DEF GateStep, Authenticated
  <1>3. QED
    BY <1>1, <1>2, SetupInvariant, PTL DEF Spec, ImplementsGate, Gate!Spec

-----------------------------------------------------------------------------
(* One controller at a time *)

\* To whom a request may give the procedure, and that on a paired accessory it
\* changes nothing unless its session holds the procedure.
LEMMA RequestsClaim ==
    ASSUME SetupInv, NEW s \in AllSessions, WriteM1(s) \/ WriteRefused(s)
    PROVE  /\ pairSetup'.session \in {pairSetup.session, s, NoSession}
           /\ pairSetup.session \notin {s, NoSession} /\ ~pairSetup.expired
                => pairSetup'.session \in {pairSetup.session, NoSession}
           /\ paired /\ pairSetup.session # s
                => pairSetup'.session = pairSetup.session /\ UNCHANGED accessorySetup
  <1>1. paired \in BOOLEAN /\ pairSetup.session \notin transient
    BY PairSetupAssumption DEF SetupInv, RestTyped, HolderIsOpen
  <1>2. CASE WriteM1(s)
    <2> DEFINE yes == TRUE
    <2>1. yes \in BOOLEAN
      OBVIOUS
    <2>2. PICK p \in WriteStarted(s, yes), flags \in SUBSET {"transient", "split"} :
            \E method \in {"PairSetup", "PairSetupWithAuth"} :
               Become([p EXCEPT !.setup[s].state = 1, !.setup[s].method = method,
                                !.ps.flags = IF p.ps.session = s THEN flags ELSE @])
      BY <1>2 DEF WriteM1
    <2> HIDE DEF yes
    <2>3. ProcedureFits(p, paired, attempts) /\ Continues(Procedure, p, s)
      BY <1>1, <2>1, <2>2, WriteStartedFits DEF SetupInv
    <2>4. p \in Procedures /\ p.ps \in PairSetupState
      BY <2>3, ProcedureTypes
    <2>5. /\ accessorySetup' = p.as
          /\ pairSetup' = [p.ps EXCEPT !.flags = IF p.ps.session = s THEN flags ELSE @]
      BY <2>2, <2>4 DEF Become, Procedures
    <2>6. pairSetup'.session = p.ps.session
      BY <2>4, <2>5 DEF PairSetupState
    <2>7. QED
      BY <2>3, <2>5, <2>6 DEF Continues, Procedure
  <1>3. CASE WriteRefused(s)
    <2>1. PICK parsed \in BOOLEAN, isM1 \in BOOLEAN :
            \E p \in IF parsed THEN WriteStarted(s, isM1) ELSE {[Procedure EXCEPT !.setup = Remaining(s)]} :
                \E q \in ResetForSession(p, s) : Become(q)
      BY <1>3 DEF WriteRefused
    <2>2. PICK p \in IF parsed THEN WriteStarted(s, isM1) ELSE {[Procedure EXCEPT !.setup = Remaining(s)]} :
            \E q \in ResetForSession(p, s) : Become(q)
      BY <2>1
    <2>3. PICK q \in ResetForSession(p, s) : Become(q)
      BY <2>2
    <2>4. ProcedureFits(p, paired, attempts) /\ Continues(Procedure, p, s)
      <3>1. CASE parsed
        BY <1>1, <2>2, <3>1, WriteStartedFits DEF SetupInv
      <3>2. CASE ~parsed
        <4>1. p = [Procedure EXCEPT !.setup = Remaining(s)]
          BY <2>2, <3>2
        <4>2. QED
          BY <1>1, <4>1, RemainingFits DEF SetupInv, Continues, Procedure
      <3>3. QED
        BY <3>1, <3>2
    <2>5. /\ q.ps.session \in {p.ps.session, NoSession}
          /\ p.ps.session # s => q.ps = p.ps /\ q.as = p.as
      <3>1. paired \in BOOLEAN /\ ProcedureFits(p, paired, attempts) /\ q \in ResetForSession(p, s)
        BY <1>1, <2>3, <2>4
      <3>2. q.ps.session \in {p.ps.session, NoSession}
        BY <3>1, ResetEndsIt
      <3>3. p.ps.session # s => q.ps = p.ps /\ q.as = p.as
        BY <2>3 DEF ResetForSession
      <3>4. QED
        BY <3>2, <3>3
    <2>6. accessorySetup' = q.as /\ pairSetup' = q.ps
      BY <2>3 DEF Become
    <2>7. QED
      BY <2>4, <2>5, <2>6, PairSetupAssumption DEF Continues, Procedure
  <1>4. QED
    BY <1>2, <1>3

\* No other step gives the procedure to another session.
LEMMA ProcedureIsGivenByRequests ==
    ASSUME SetupInv, [Next]_vars, \A s \in AllSessions : ~WriteM1(s) /\ ~WriteRefused(s)
    PROVE  pairSetup'.session \in {pairSetup.session, NoSession}
  <1>1. pairSetup \in PairSetupState /\ NoPairSetup.session = NoSession
    BY ProcedureTyped, NoPairSetupFits DEF SetupInv
  <1>2. ProcedureFits(Procedure, paired, attempts) /\ paired \in BOOLEAN
    BY DEF SetupInv, RestTyped
  <1>3. ASSUME NEW s \in AllSessions, \E p \in ResetForSession(Procedure, s) : Become(p)
        PROVE  pairSetup'.session \in {pairSetup.session, NoSession}
    BY <1>2, <1>3, ResetStep
  <1>4. ASSUME NEW s \in AllSessions, Read(s)
        PROVE  pairSetup'.session \in {pairSetup.session, NoSession}
    <2>1. CASE ReadReset(s)
      BY <1>3, <2>1 DEF ReadReset
    <2>2. CASE AcceptM2(s)
      BY <1>1, <2>2 DEF AcceptM2, PairSetupState
    <2>3. CASE BusyM4(s)
      <3>1. pairSetup' = [pairSetup EXCEPT !.stage = @ + 1, !.secret = @ \/ pairSetup.stage = 2]
        BY <2>3 DEF BusyM4, NextStage
      <3>2. QED
        BY <1>1, <3>1 DEF PairSetupState
    <2>4. CASE TransientM4(s)
      <3>1. setup[s].state = 3
        BY <2>4 DEF TransientM4
      <3>2. pairSetup'.session = NoSession
        <4> DEFINE keep == pairSetup.keepSetupInfo \/ "split" \in pairSetup.flags
                   p1 == [Procedure EXCEPT !.ps.keepSetupInfo = keep]
        <4>1. PICK q \in ResetForSession(p1, s) : Become([q EXCEPT !.setup[s].state = 1])
          BY <2>4 DEF TransientM4, Procedure
        <4>2. p1.ps = [pairSetup EXCEPT !.keepSetupInfo = keep]
          BY <1>1 DEF Procedure
        <4>3. p1.ps.session = s
          BY <1>1, <3>1, <4>2, ProcedureTyped DEF SetupInv, PairSetupState
        <4> HIDE DEF p1
        <4>4. PICK a \in Stopped(p1.as, p1.ps.keepSetupInfo, paired) :
                q = [ps |-> NoPairSetup, as |-> a, setup |-> [p1.setup EXCEPT ![s] = NoSetup]]
          BY <4>1, <4>3 DEF ResetForSession
        <4>5. pairSetup' = NoPairSetup
          BY <4>1, <4>4 DEF Become
        <4>6. QED
          BY <1>1, <4>5
      <3>3. QED
        BY <3>2
    <2>5. CASE UNCHANGED pairSetup
      BY <2>5
    <2>6. QED
      BY <1>4, <2>1, <2>2, <2>3, <2>4, <2>5
      DEF Read, RefuseM2, RejectM4, FailM4, AcceptM4, ReadM6, ReadUnexpected, Abort
  <1>5. ASSUME NEW s \in AllSessions, SessionStep(s)
        PROVE  pairSetup'.session \in {pairSetup.session, NoSession}
    <2>1. CASE WriteM3(s) \/ LongRequest(s)
      BY <1>1, <2>1 DEF WriteM3, LongRequest, PairSetupState
    <2>2. CASE WriteM5(s) \/ Connect(s) \/ TransientWhilePaired(s)
      BY <2>2 DEF WriteM5, Connect, TransientWhilePaired, Abort
    <2>3. CASE CloseSession(s) \/ InvalidateForPairSetup(s)
      BY <1>3, <2>3 DEF CloseSession, InvalidateForPairSetup
    <2>4. QED
      BY <1>4, <1>5, <2>1, <2>2, <2>3 DEF SessionStep, Write
  <1>6. CASE Timeout
    BY <1>1, <1>6 DEF Timeout, PairSetupState
  <1>7. CASE Crash
    BY <1>1, <1>7 DEF Crash
  <1>8. CASE UNCHANGED pairSetup
    BY <1>8
  <1>9. QED
    BY <1>5, <1>6, <1>7, <1>8
    DEF Next, vars, Start, Stop, StateUpdate, Unpair, ExpireCode, RefreshCode, EnterNFC,
        ExitNFC, EnterLegacyMode, SetupInfoStep

\* An IP session holds the procedure of a paired accessory only while the handler
\* that has just paired it goes on to M6: no other event can find it there.
IPInv == paired /\ pairSetup.session \in IPSessions => inHandler = pairSetup.session

\* What happens between two handlers finds no IP session in the procedure.
LEMMA PairedAndIdle ==
    ASSUME SetupInv, IPInv, paired, Dispatching
    PROVE  pairSetup.session \notin IPSessions
  BY PairSetupAssumption DEF IPInv, Dispatching, AllSessions

\* On a paired accessory, an IP session adds neither a code nor a transient session.
LEMMA PairedSession ==
    ASSUME SetupInv, IPInv, paired, NEW s \in IPSessions, SessionStep(s)
    PROVE  /\ UNCHANGED paired
           /\ transient' \subseteq transient
           /\ CodeIsLeft' => CodeIsLeft
  <1>0. /\ s \in AllSessions /\ s # NoSession /\ s \notin BLESessions
        /\ paired \in BOOLEAN
        /\ ProcedureFits(Procedure, paired, attempts)
        /\ NoPairSetup.session = NoSession
    BY NoPairSetupFits, PairSetupAssumption DEF AllSessions, SetupInv, RestTyped
  <1>1. setup[s].state # 2 /\ setup[s].state # 3 /\ setup[s].state # 4
    <2>1. setup[s].state \notin 2 .. 4
      BY <1>0, ProcedureTyped
    <2>2. QED
      BY <2>1
  <1>2. Dispatching => pairSetup.session # s
    BY PairedAndIdle
  <1>3. CASE WriteM1(s) \/ WriteRefused(s)
    <2>1. Dispatching /\ UNCHANGED paired /\ transient' \subseteq transient
      BY <1>3 DEF WriteM1, WriteRefused, MayWrite, CloseTransient
    <2>2. pairSetup'.session = pairSetup.session /\ UNCHANGED accessorySetup
      BY <1>0, <1>2, <1>3, <2>1, RequestsClaim
    <2>3. QED
      BY <2>1, <2>2 DEF CodeIsLeft
  <1>4. ~WriteM3(s) /\ ~WriteM5(s)
    BY <1>1 DEF WriteM3, WriteM5
  <1>5. CASE ReadReset(s)
    <2>1. /\ pairSetup.session # s => UNCHANGED <<pairSetup, accessorySetup>>
          /\ pairSetup.session = s => ~Available(accessorySetup')
      BY <1>0, <1>5, ResetStep DEF ReadReset
    <2>2. UNCHANGED <<paired, transient>>
      BY <1>5 DEF ReadReset
    <2>3. QED
      BY <2>1, <2>2 DEF CodeIsLeft
  <1>6. CASE Read(s) /\ ~ReadReset(s)
    <2>1. ~AcceptM2(s) /\ ~BusyM4(s) /\ ~AcceptM4(s) /\ ~TransientM4(s)
      BY <1>1 DEF AcceptM2, BusyM4, AcceptM4, TransientM4
    <2>2. CASE ReadM6(s)
      BY <1>6, <2>2 DEF ReadM6, Abort, CodeIsLeft
    <2>3. QED
      BY <1>6, <2>1, <2>2 DEF Read, RefuseM2, RejectM4, FailM4, ReadUnexpected
  <1>7. CASE CloseSession(s)
    <2>1. Dispatching /\ UNCHANGED paired /\ transient' \subseteq transient
      BY <1>7 DEF CloseSession
    <2>2. UNCHANGED <<pairSetup, accessorySetup>>
      BY <1>0, <1>2, <1>7, <2>1, ResetStep DEF CloseSession
    <2>3. QED
      BY <2>1, <2>2 DEF CodeIsLeft
  <1>8. ~InvalidateForPairSetup(s) /\ ~LongRequest(s)
    BY <1>0, PairedAndIdle DEF InvalidateForPairSetup, LongRequest
  <1>9. CASE Connect(s) \/ TransientWhilePaired(s)
    BY <1>9 DEF Connect, TransientWhilePaired, Abort, CodeIsLeft
  <1>10. QED
    BY <1>3, <1>4, <1>5, <1>6, <1>7, <1>8, <1>9 DEF SessionStep, Write

\* What no session does on a paired accessory: the server, its timers and the
\* application generate no code for it.
LEMMA PairedOtherwise ==
    ASSUME SetupInv, IPInv, paired, [Next]_vars, \A s \in AllSessions : ~SessionStep(s)
    PROVE  /\ transient' \subseteq transient
           /\ CodeIsLeft' => CodeIsLeft
           /\ \/ pairSetup'.session = NoSession
              \/ UNCHANGED <<inHandler, pairSetup>>
              \/ Dispatching /\ pairSetup'.session = pairSetup.session
  <1>1. CodeFits(accessorySetup, paired) /\ paired \in BOOLEAN
        /\ NoPairSetup.session = NoSession /\ pairSetup \in PairSetupState
    BY ProcedureTyped, NoPairSetupFits DEF SetupInv, RestTyped
  <1>2. CASE Start
    <2>1. UNCHANGED <<paired, accessorySetup, pairSetup, transient, inHandler>>
      BY <1>2 DEF Start, Resumed
    <2>2. QED
      BY <2>1 DEF CodeIsLeft
  <1>3. CASE Stop \/ Crash
    <2>1. /\ accessorySetup' = NoSetupInfo(accessorySetup.interfaces)
          /\ transient' = transient \/ transient' = {}
          /\ UNCHANGED <<inHandler, pairSetup>> \/ pairSetup'.session = NoSession
      BY <1>1, <1>3 DEF Stop, Crash
    <2>2. ~Available(accessorySetup')
      BY <2>1 DEF NoSetupInfo, Available
    <2>3. QED
      BY <2>1, <2>2 DEF CodeIsLeft
  <1>4. CASE StateUpdate \/ ExitNFC
    <2>1. /\ accessorySetup' \in {accessorySetup, ExitedNFC(accessorySetup)}
          /\ UNCHANGED <<paired, pairSetup, transient, inHandler>>
      BY <1>4 DEF StateUpdate, ExitNFC, SetupInfoStep
    <2>2. ~Available(accessorySetup) => ~Available(accessorySetup')
      BY <1>1, <2>1, ExitedNFCFits
    <2>3. QED
      BY <2>1, <2>2 DEF CodeIsLeft
  <1>5. CASE Unpair
    BY <1>5 DEF Unpair, CodeIsLeft
  <1>6. CASE Timeout
    <2>1. /\ pairSetup' = [pairSetup EXCEPT !.expired = TRUE]
          /\ Dispatching /\ UNCHANGED <<paired, accessorySetup, transient>>
      BY <1>6 DEF Timeout
    <2>2. pairSetup'.session = pairSetup.session
      BY <1>1, <2>1 DEF PairSetupState
    <2>3. QED
      BY <2>1, <2>2 DEF CodeIsLeft
  <1>7. ~EnterNFC /\ ~EnterLegacyMode /\ ~ExpireCode
    BY <1>1 DEF EnterNFC, EnterLegacyMode, ExpireCode, CodeFits
  <1>8. CASE RefreshCode
    <2>1. accessorySetup' \in Refreshed(accessorySetup)
          /\ UNCHANGED <<paired, pairSetup, transient, inHandler>>
      BY <1>8 DEF RefreshCode, SetupInfoStep
    <2>2. accessorySetup' = accessorySetup
      BY <1>1, <2>1, RefreshedFits
    <2>3. QED
      BY <2>1, <2>2 DEF CodeIsLeft
  <1>9. CASE UNCHANGED vars
    BY <1>9 DEF vars, CodeIsLeft
  <1>10. QED
    BY <1>2, <1>3, <1>4, <1>5, <1>6, <1>7, <1>8, <1>9 DEF Next

\* The accessory is paired by M5 of the session that holds the procedure.
LEMMA PairedByM5 ==
    ASSUME SetupInv, [Next]_vars, ~paired, paired'
    PROVE  \E s \in AllSessions : /\ WriteM5(s)
                                  /\ pairSetup.session = s /\ pairSetup'.session = s
                                  /\ s \in IPSessions => inHandler' = s
                                                         /\ transient' \cap IPSessions = {}
  <1>1. PICK s \in AllSessions : WriteM5(s) /\ UNCHANGED server
    BY DEF Next, vars, SessionStep, Write, Read, WriteM1, WriteM3, WriteM5, WriteRefused,
       RefuseM2, AcceptM2, BusyM4, RejectM4, FailM4, AcceptM4, TransientM4, ReadM6,
       ReadUnexpected, ReadReset, Connect, CloseSession, InvalidateForPairSetup,
       TransientWhilePaired, LongRequest, Abort, Start, Stop, Crash, StateUpdate, Unpair,
       Timeout, ExpireCode, RefreshCode, EnterNFC, ExitNFC, EnterLegacyMode, SetupInfoStep
  <1>2. Written(s) /\ CloseTransient(s) /\ UNCHANGED pairSetup
    BY <1>1 DEF WriteM5, Abort
  <1>3. setup[s].state = 4 /\ s \notin transient
    BY <1>1 DEF WriteM5, MayWrite
  <1>4. pairSetup.session = s
    BY <1>3, ProcedureTyped DEF SetupInv
  <1>5. s \in IPSessions => inHandler' = s /\ transient' \cap IPSessions = {}
    BY <1>2, <1>3 DEF Written, CloseTransient, ClosedBy
  <1>6. QED
    BY <1>1, <1>2, <1>4, <1>5

LEMMA IPStep ==
    ASSUME SetupInv, IPInv, [Next]_vars
    PROVE  IPInv'
  <1>1. CASE ~paired
    BY <1>1, PairedByM5 DEF IPInv
  <1>2. ASSUME paired, NEW s \in AllSessions, SessionStep(s)
        PROVE  IPInv'
    <2>1. pairSetup'.session \in {pairSetup.session, NoSession}
      <3>1. CASE \E t \in AllSessions : WriteM1(t) \/ WriteRefused(t)
        <4>1. PICK t \in AllSessions : WriteM1(t) \/ WriteRefused(t)
          BY <3>1
        <4>2. QED
          BY <1>2, <4>1, RequestsClaim
      <3>2. CASE \A t \in AllSessions : ~WriteM1(t) /\ ~WriteRefused(t)
        BY <3>2, ProcedureIsGivenByRequests
      <3>3. QED
        BY <3>1, <3>2
    <2>2. CASE pairSetup.session \notin IPSessions
      BY <2>1, <2>2, PairSetupAssumption DEF IPInv, AllSessions
    <2>3. CASE pairSetup.session \in IPSessions
      <3>1. ~Dispatching
        BY <1>2, <2>3, PairedAndIdle
      <3>2. Read(s) \/ UNCHANGED <<paired, pairSetup, inHandler>>
        BY <1>2, <3>1
        DEF SessionStep, Write, WriteM1, WriteM3, WriteM5, WriteRefused, MayWrite, Connect,
            CloseSession, InvalidateForPairSetup, TransientWhilePaired, LongRequest
      <3>3. CASE Read(s)
        <4>1. inHandler = pairSetup.session /\ inHandler # NoSession
          BY <1>2, <2>3, PairSetupAssumption DEF IPInv, AllSessions
        <4>2. s = pairSetup.session
          BY <3>3, <4>1
          DEF Read, MayRead, RefuseM2, AcceptM2, BusyM4, RejectM4, FailM4, AcceptM4,
              TransientM4, ReadM6, ReadUnexpected
        <4>3. ReadReset(s) \/ UNCHANGED <<paired, pairSetup, inHandler>>
          <5>1. setup[s].state \notin 2 .. 4
            BY <1>2, ProcedureTyped DEF SetupInv
          <5>2. setup[s].state # 3 /\ setup[s].state # 2 /\ setup[s].state # 4
            BY <5>1
          <5>3. ~AcceptM2(s) /\ ~BusyM4(s) /\ ~RejectM4(s) /\ ~FailM4(s) /\ ~AcceptM4(s)
                /\ ~TransientM4(s)
            BY <1>2, <5>2 DEF AcceptM2, BusyM4, RejectM4, FailM4, AcceptM4, TransientM4
          <5>4. QED
            BY <3>3, <5>3 DEF Read, RefuseM2, ReadM6, ReadUnexpected, Abort
        <4>4. CASE ReadReset(s)
          <5>1. pairSetup' = NoPairSetup
            BY <4>2, <4>4, ResetStep DEF ReadReset, SetupInv, RestTyped
          <5>2. pairSetup'.session = NoSession
            BY <5>1, NoPairSetupFits
          <5>3. QED
            BY <5>2, PairSetupAssumption DEF IPInv, AllSessions
        <4>5. QED
          BY <4>3, <4>4 DEF IPInv
      <3>4. QED
        BY <3>2, <3>3 DEF IPInv
    <2>4. QED
      BY <2>2, <2>3
  <1>3. CASE paired /\ \A s \in AllSessions : ~SessionStep(s)
    <2>1. CASE pairSetup'.session = NoSession
      BY <2>1, PairSetupAssumption DEF IPInv, AllSessions
    <2>2. QED
      BY <1>3, <2>1, PairedOtherwise, PairedAndIdle DEF IPInv
  <1>4. QED
    BY <1>1, <1>2, <1>3

LEMMA IPInvariant == Spec => []IPInv
  <1>1. Init => IPInv
    BY InitFits DEF IPInv
  <1>2. SetupInv /\ IPInv /\ [Next]_vars => IPInv'
    BY IPStep
  <1>3. QED
    BY <1>1, <1>2, SetupInvariant, PTL DEF Spec

\* The display of an unpaired accessory has its code (HAPAccessorySetupInfo.c:43),
\* and the refresh timer runs only for a code that may be changed
\* (DynamicSetupInfoExpired), over any transports.
THEOREM CodeIsShownThroughout == Spec => []CodeIsShownInTime
  <1>1. SetupInv => CodeIsShownInTime
    BY CodeFacts DEF CodeFits, CodeIsShownInTime
  <1>2. QED
    BY <1>1, SetupInvariant, PTL

\* Nothing but a BLE session leaves a code on a paired accessory, or a transient IP
\* session.
LEMMA OnlyBLELeaves ==
    ASSUME SetupInv, IPInv, [Next]_vars, \A b \in BLESessions : ~SessionStep(b)
    PROVE  /\ TransientOverIP' \subseteq TransientOverIP
           /\ CodeIsLeft' => CodeIsLeft
  <1>1. CASE ~paired'
    BY <1>1 DEF TransientOverIP, CodeIsLeft
  <1>2. CASE ~paired /\ paired'
    <2>1. PICK s \in AllSessions :
            /\ WriteM5(s) /\ pairSetup'.session = s
            /\ s \in IPSessions => transient' \cap IPSessions = {}
      BY <1>2, PairedByM5
    <2>2. s \in IPSessions /\ s # NoSession
      BY <2>1, PairSetupAssumption DEF AllSessions, SessionStep, Write
    <2>3. QED
      BY <2>1, <2>2 DEF TransientOverIP, CodeIsLeft
  <1>3. CASE paired /\ paired'
    <2>1. transient' \subseteq transient /\ (CodeIsLeft' => CodeIsLeft)
      <3>1. CASE \E s \in IPSessions : SessionStep(s)
        BY <1>3, <3>1, PairedSession
      <3>2. CASE \A s \in IPSessions : ~SessionStep(s)
        BY <1>3, <3>2, PairedOtherwise DEF AllSessions
      <3>3. QED
        BY <3>1, <3>2
    <2>2. QED
      BY <1>3, <2>1 DEF TransientOverIP
  <1>4. QED
    BY <1>1, <1>2, <1>3

\* Nothing that happens over IP, no timer and no request of the application leaves a
\* code on a paired accessory (HAPAccessorySetupInfo.h:81).
THEOREM CodeGoesWithPairing == Spec => CodeIsGoneWhenPaired
  <1>1. SetupInv /\ IPInv /\ [Next]_vars
          => [CodeIsLeft' => CodeIsLeft \/ \E b \in BLESessions : SessionStep(b)]_vars
    BY OnlyBLELeaves
  <1>2. QED
    BY <1>1, SetupInvariant, IPInvariant, PTL DEF Spec, CodeIsGoneWhenPaired

\* One controller at a time is in the procedure, and no transient session over IP
\* survives a pairing over IP (handle_http_request, HAPSession.c:184).
THEOREM OneControllerAtATime == Spec => PairSetupIsExclusive
  <1> DEFINE Exclusive ==
                /\ pairSetup.session # NoSession
                   /\ pairSetup'.session \notin {pairSetup.session, NoSession}
                   => pairSetup.expired
                /\ \/ TransientOverIP' \subseteq TransientOverIP
                   \/ \E b \in BLESessions : SessionStep(b)
  <1>1. SetupInv /\ IPInv /\ [Next]_vars => [Exclusive]_vars
    <2> SUFFICES ASSUME SetupInv, IPInv, [Next]_vars PROVE Exclusive
      OBVIOUS
    <2>1. TransientOverIP' \subseteq TransientOverIP \/ \E b \in BLESessions : SessionStep(b)
      BY OnlyBLELeaves
    <2>2. ASSUME pairSetup.session # NoSession, ~pairSetup.expired
          PROVE  pairSetup'.session \in {pairSetup.session, NoSession}
      <3>1. CASE \E s \in AllSessions : WriteM1(s) \/ WriteRefused(s)
        BY <2>2, <3>1, RequestsClaim
      <3>2. CASE \A s \in AllSessions : ~WriteM1(s) /\ ~WriteRefused(s)
        BY <3>2, ProcedureIsGivenByRequests
      <3>3. QED
        BY <3>1, <3>2
    <2>3. QED
      BY <2>1, <2>2
  <1>2. QED
    BY <1>1, SetupInvariant, IPInvariant, PTL DEF Spec, PairSetupIsExclusive

====
