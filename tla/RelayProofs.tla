---------------------------- MODULE RelayProofs -----------------------------
(***************************************************************************)
(* Proofs about a relay's process: the registry documents it keeps on disk *)
(* (RegistryCache), and its start and its key (RelayProcess).              *)
(***************************************************************************)
EXTENDS RelayProcess, RegistryCache, TLAPS

\* Zenon proves what names no other prover.
USE ZenonT(60)

(***************************************************************************)
(* RegistryCache, for any number of processes on one state directory, any  *)
(* documents and any number of crashes and faults: as long as no two       *)
(* processes record at the same time, none goes back behind what it        *)
(* accepted, none accepts two documents of one version, and store leaves   *)
(* no torn file.                                                           *)
(***************************************************************************)

Storing == {"open", "write", "rename"}
Recording == {"verified"} \cup Storing
Calm == {"down", "idle", "fetching"}

\* The types of what the properties are about, and who holds a document it
\* has not recorded yet.
CacheType ==
    /\ pc \in [Procs -> Calm \cup Recording]
    /\ got \in [Procs -> Docs \cup {NoDoc}]
    /\ current \in [Procs -> Docs \cup {NoDoc}]
    /\ handle \in [Procs -> Docs \cup {NoDoc}]
    /\ fd \in [Procs -> {"none", "tmp", "file"}]
    /\ tmp \in Docs \cup {NoDoc, Torn}
    /\ file \in Docs \cup {NoDoc, Torn}
    /\ accepted \in [Procs -> SUBSET Docs]
    /\ overlapped \in BOOLEAN
    /\ \A p \in Procs : got[p] # NoDoc <=> pc[p] \in Recording

\* d is e or an older document.
AtMost(d, e) == d.ver < e.ver \/ d = e

\* One process records at a time, and what it wrote is in the temporary file.
Alone ==
    /\ \A p, q \in Procs : got[p] # NoDoc /\ got[q] # NoDoc => p = q
    /\ \A p \in Procs : fd[p] = IF pc[p] = "write" THEN "tmp" ELSE "none"
    /\ \A p \in Procs : pc[p] = "write" => tmp = Torn
    /\ \A p \in Procs : pc[p] = "rename" => tmp = got[p]

\* The baseline covers everything accepted, and a document on its way covers
\* both; it is newer than both once remember decided to store it, which is
\* what matters when the file is damaged meanwhile.
Covered ==
    /\ \A p \in Procs : \A d \in accepted[p] : file # Torn => AtMost(d, file)
    /\ \A p, q \in Procs : pc[p] = "verified" =>
           \A d \in accepted[q] : AtMost(d, got[p])
    /\ \A p \in Procs : pc[p] = "verified" => file \in {Torn, NoDoc} \/ AtMost(file, got[p])
    /\ \A p, q \in Procs : pc[p] \in Storing =>
           \A d \in accepted[q] : d.ver < got[p].ver
    /\ \A p \in Procs : pc[p] \in Storing => file = Torn \/ file.ver < got[p].ver
    /\ \A p, q \in Procs : \A d \in accepted[p], e \in accepted[q] : d.ver = e.ver => d = e

Serial == ~overlapped => Alone /\ Covered

(***************************************************************************)
(* Documents.                                                              *)
(***************************************************************************)
\* A document has a version of at least 1; no document and a torn file are
\* neither, and differ.
LEMMA DocFacts ==
    /\ \A d \in Docs : d.ver \in Nat /\ d.ver >= 1 /\ d # NoDoc /\ d # Torn
    /\ NoDoc # Torn /\ NoDoc.ver = 0
<1>1. \A d \in Docs : d.ver \in Nat /\ d.ver >= 1
  BY SMT, CacheAssumption DEF Docs
<1>2. NoDoc.ver = 0 /\ Torn.ver = -1
  BY DEF NoDoc, Torn
<1>3. \A d \in Docs : d # NoDoc /\ d # Torn
  BY SMT, <1>1, <1>2
<1> QED  BY SMT, <1>1, <1>2, <1>3

\* AtMost on documents.
LEMMA AtMostFacts ==
    ASSUME NEW d \in Docs, NEW e \in Docs, AtMost(d, e)
    PROVE  d.ver <= e.ver /\ (d.ver = e.ver => d = e)
BY SMT, DocFacts DEF AtMost

\* A verified document covers the baseline it was verified against.
LEMMA Rollback ==
    ASSUME NEW d, NEW t, file \in Docs \cup {NoDoc}, verify(d, t, file)
    PROVE  d \in Docs /\ (file = NoDoc \/ AtMost(file, d))
BY DocFacts DEF verify, check_rollback, AtMost

(***************************************************************************)
(* Types.                                                                  *)
(***************************************************************************)
\* An attempt given up.
LEMMA FailType ==
    ASSUME CacheType, NEW p \in Procs, Fail(p)
    PROVE  /\ pc' \in [Procs -> Calm \cup Recording]
           /\ got' \in [Procs -> Docs \cup {NoDoc}]
           /\ current' \in [Procs -> Docs \cup {NoDoc}]
           /\ pc'[p] \in Calm /\ got'[p] = NoDoc
           /\ \A q \in Procs \ {p} : pc'[q] = pc[q] /\ got'[q] = got[q]
           /\ \A q \in Procs : got'[q] # NoDoc <=> pc'[q] \in Recording
<1>1. /\ pc' \in [Procs -> Calm \cup Recording] /\ pc'[p] \in Calm
      /\ \A q \in Procs \ {p} : pc'[q] = pc[q]
  BY DEF CacheType, Fail, Calm
<1>2. /\ got' \in [Procs -> Docs \cup {NoDoc}] /\ got'[p] = NoDoc
      /\ \A q \in Procs \ {p} : got'[q] = got[q]
  BY DEF CacheType, Fail
<1>3. current' \in [Procs -> Docs \cup {NoDoc}]
  BY DEF CacheType, Fail
<1>4. \A q \in Procs : got'[q] # NoDoc <=> pc'[q] \in Recording
  BY SMT, <1>1, <1>2 DEF CacheType, Calm, Recording, Storing
<1> QED  BY <1>1, <1>2, <1>3, <1>4

\* A document accepted.
LEMMA AcceptType ==
    ASSUME CacheType, NEW p \in Procs, NEW d \in Docs, Accept(p, d)
    PROVE  /\ pc' \in [Procs -> Calm \cup Recording]
           /\ got' \in [Procs -> Docs \cup {NoDoc}]
           /\ current' \in [Procs -> Docs \cup {NoDoc}]
           /\ handle' \in [Procs -> Docs \cup {NoDoc}]
           /\ accepted' \in [Procs -> SUBSET Docs]
           /\ pc'[p] \in Calm /\ got'[p] = NoDoc
           /\ \A q \in Procs \ {p} : pc'[q] = pc[q] /\ got'[q] = got[q] /\ current'[q] = current[q]
           /\ current'[p] \in {d, NoDoc}
           /\ \A q \in Procs : accepted'[q] \subseteq accepted[q] \cup {d}
           /\ \A q \in Procs : got'[q] # NoDoc <=> pc'[q] \in Recording
<1>1. /\ pc' \in [Procs -> Calm \cup Recording] /\ pc'[p] \in Calm
      /\ \A q \in Procs \ {p} : pc'[q] = pc[q]
  BY DEF CacheType, Accept, Calm
<1>2. /\ got' \in [Procs -> Docs \cup {NoDoc}] /\ got'[p] = NoDoc
      /\ \A q \in Procs \ {p} : got'[q] = got[q]
  BY DEF CacheType, Accept
<1>3. /\ current' \in [Procs -> Docs \cup {NoDoc}] /\ current'[p] \in {d, NoDoc}
      /\ \A q \in Procs \ {p} : current'[q] = current[q]
  BY SMT DEF CacheType, Accept
<1>4. handle' \in [Procs -> Docs \cup {NoDoc}]
  BY SMT DEF CacheType, Accept
<1>5. accepted' \in [Procs -> SUBSET Docs] /\ \A q \in Procs : accepted'[q] \subseteq accepted[q] \cup {d}
  BY DEF CacheType, Accept
<1>6. \A q \in Procs : got'[q] # NoDoc <=> pc'[q] \in Recording
  BY SMT, <1>1, <1>2 DEF CacheType, Calm, Recording, Storing
<1> QED  BY <1>1, <1>2, <1>3, <1>4, <1>5, <1>6

\* The steps of Next, one per operation.
Step ==
    \/ \E p \in Procs : prime_reuse(p)
    \/ \E p \in Procs : prime_fetch(p)
    \/ \E p \in Procs : refresh_if_stale(p)
    \/ \E p \in Procs : remember(p)
    \/ \E p \in Procs : remember_store(p)
    \/ \E p \in Procs : remember_error(p)
    \/ \E p \in Procs : store_open(p)
    \/ \E p \in Procs : store_write(p)
    \/ \E p \in Procs : store_rename(p)
    \/ \E p \in Procs : store_rename_error(p)
    \/ \E p \in Procs, d \in Docs : accept_body(p, d)
    \/ \E p \in Procs, d \in Docs : accept_body_error(p, d)
    \/ \E p \in Procs : fetch_error(p)
    \/ \E p \in Procs : store_error(p)
    \/ \E p \in Procs : Crash(p)
    \/ Damage
    \/ Tick
    \/ UNCHANGED vars

\* Every step is one of them; refresh_not_due changes nothing.
LEMMA NextSteps == [Next]_vars => Step
BY DEF Next, Local, Response, Environment, refresh_not_due, Step

\* Every step keeps the types.
LEMMA TypeStep ==
    ASSUME CacheType, Step
    PROVE  CacheType'
<1>1. ASSUME NEW p \in Procs, prime_reuse(p) PROVE CacheType'
  <2>1. file \in Docs /\ Accept(p, file)
    BY <1>1 DEF prime_reuse, Reusable, verify
  <2>2. UNCHANGED <<fd, tmp, file, overlapped>>
    BY <1>1 DEF prime_reuse, fileVars
  <2> QED  BY <2>1, <2>2, AcceptType DEF CacheType
<1>2. ASSUME NEW p \in Procs, StartFetch(p), pc[p] \in Calm PROVE CacheType'
  <2>1. /\ pc' = [pc EXCEPT ![p] = "fetching"]
        /\ UNCHANGED <<got, current, handle, fd, tmp, file, accepted, overlapped>>
    BY <1>2 DEF StartFetch, fileVars
  <2> QED  BY <1>2, <2>1 DEF CacheType, Calm, Recording, Storing
<1>3. ASSUME NEW p \in Procs, prime_fetch(p) PROVE CacheType'
  BY <1>2, <1>3 DEF prime_fetch, Calm
<1>4. ASSUME NEW p \in Procs, refresh_if_stale(p) PROVE CacheType'
  BY <1>2, <1>4 DEF refresh_if_stale, Calm
<1>5. ASSUME NEW p \in Procs, pc[p] \in Recording PROVE got[p] \in Docs
  BY <1>5 DEF CacheType
<1>6. ASSUME NEW p \in Procs, remember(p) PROVE CacheType'
  <2>1. got[p] \in Docs /\ Accept(p, got[p])
    BY <1>5, <1>6 DEF remember, Recording
  <2>2. UNCHANGED <<fd, tmp, file, overlapped>>
    BY <1>6 DEF remember, fileVars
  <2> QED  BY <2>1, <2>2, AcceptType DEF CacheType
<1>7. ASSUME NEW p \in Procs, remember_store(p) PROVE CacheType'
  BY <1>7 DEF remember_store, fileVars, CacheType, Recording, Storing
<1>8. ASSUME NEW p \in Procs, Fail(p),
             UNCHANGED <<handle, tmp, file, accepted, overlapped>>,
             fd' \in [Procs -> {"none", "tmp", "file"}]
      PROVE  CacheType'
  BY <1>8, FailType DEF CacheType
<1>9. ASSUME NEW p \in Procs, remember_error(p) PROVE CacheType'
  BY <1>8, <1>9 DEF remember_error, fileVars, CacheType
<1>10. ASSUME NEW p \in Procs, store_open(p) PROVE CacheType'
  BY <1>10 DEF store_open, CacheType, Recording, Storing
<1>11. ASSUME NEW p \in Procs, store_write(p) PROVE CacheType'
  <2>1. /\ pc[p] = "write" /\ pc' = [pc EXCEPT ![p] = "rename"]
        /\ fd' = [fd EXCEPT ![p] = "none"]
        /\ UNCHANGED <<got, current, handle, accepted, overlapped>>
    BY <1>11 DEF store_write
  <2>2. got[p] \in Docs
    BY <1>5, <2>1 DEF Recording, Storing
  <2>3. tmp' \in Docs \cup {NoDoc, Torn} /\ file' \in Docs \cup {NoDoc, Torn}
    BY <1>11, <2>2 DEF store_write, Written, CacheType
  <2> QED  BY <2>1, <2>3 DEF CacheType, Recording, Storing
<1>12. ASSUME NEW p \in Procs, store_rename(p) PROVE CacheType'
  <2>1. got[p] \in Docs /\ Accept(p, got[p])
    BY <1>5, <1>12 DEF store_rename, Recording, Storing
  <2>2. /\ file' = tmp /\ tmp' = NoDoc /\ UNCHANGED overlapped
        /\ fd' \in [Procs -> {"none", "tmp", "file"}]
    BY <1>12 DEF store_rename
  <2> QED  BY <2>1, <2>2, AcceptType DEF CacheType
<1>13. ASSUME NEW p \in Procs, store_rename_error(p) PROVE CacheType'
  BY <1>8, <1>13 DEF store_rename_error, fileVars, CacheType
<1>14. ASSUME NEW p \in Procs, NEW d \in Docs, accept_body(p, d) PROVE CacheType'
  <2>1. /\ pc' = [pc EXCEPT ![p] = "verified"] /\ got' = [got EXCEPT ![p] = d]
        /\ UNCHANGED <<current, handle, fd, tmp, file, accepted>>
    BY <1>14 DEF accept_body, fileVars
  <2>2. overlapped' \in BOOLEAN
    BY <1>14 DEF accept_body, CacheType
  <2> QED  BY <2>1, <2>2, DocFacts DEF CacheType, Recording
<1>15. ASSUME NEW p \in Procs, NEW d \in Docs, accept_body_error(p, d) PROVE CacheType'
  BY <1>8, <1>15 DEF accept_body_error, fileVars, CacheType
<1>16. ASSUME NEW p \in Procs, fetch_error(p) PROVE CacheType'
  BY <1>8, <1>16 DEF fetch_error, fileVars, CacheType
<1>17. ASSUME NEW p \in Procs, store_error(p) PROVE CacheType'
  BY <1>8, <1>17 DEF store_error, CacheType
<1>18. ASSUME NEW p \in Procs, Crash(p) PROVE CacheType'
  BY <1>18 DEF Crash, CacheType, Calm, Recording, Storing
<1>19. CASE Damage
  BY <1>19 DEF Damage, CacheType
<1>20. CASE Tick \/ UNCHANGED vars
  BY <1>20 DEF Tick, vars, fileVars, CacheType
<1> QED
  BY <1>1, <1>3, <1>4, <1>6, <1>7, <1>9, <1>10, <1>11, <1>12, <1>13, <1>14, <1>15, <1>16,
     <1>17, <1>18, <1>19, <1>20, Zenon DEF Step

(***************************************************************************)
(* One recording at a time.                                                *)
(***************************************************************************)
\* Process p stops recording, or goes on not recording, and the directory
\* stays as it is.
GivesUp(p) ==
    /\ \A q \in Procs \ {p} : pc'[q] = pc[q] /\ got'[q] = got[q] /\ fd'[q] = fd[q]
    /\ pc'[p] \in Calm /\ got'[p] = NoDoc
    /\ fd'[p] = "none" \/ (fd'[p] = fd[p] /\ pc[p] # "write")
    /\ UNCHANGED <<tmp, file, accepted, overlapped>>

\* A process that gives up its write leaves the others as they were.
LEMMA GivesUpSerial ==
    ASSUME Serial, NEW p \in Procs, GivesUp(p)
    PROVE  Serial'
<1> SUFFICES ASSUME ~overlapped' PROVE Alone' /\ Covered'
  BY DEF Serial
<1>1. Alone /\ Covered
  BY DEF Serial, GivesUp
<1>2. Alone'
  BY <1>1 DEF Alone, GivesUp, Calm
<1>3. \A q \in Procs : pc'[q] \in Recording => pc[q] = pc'[q] /\ got[q] = got'[q]
  BY DEF GivesUp, Calm, Recording, Storing
<1>4. UNCHANGED <<file, accepted>>
  BY DEF GivesUp
<1>5. Covered'
  BY <1>1, <1>3, <1>4 DEF Covered, Recording
<1> QED  BY <1>2, <1>5

\* A failed attempt gives up.
LEMMA FailGivesUp ==
    ASSUME CacheType, NEW p \in Procs, Fail(p),
           \A q \in Procs \ {p} : fd'[q] = fd[q],
           fd'[p] = "none" \/ (fd'[p] = fd[p] /\ pc[p] # "write"),
           UNCHANGED <<tmp, file, accepted, overlapped>>
    PROVE  GivesUp(p)
BY FailType DEF GivesUp

\* The accepted document is the baseline afterwards, and covers what was
\* accepted before; other recordings are newer.
LEMMA AcceptCovered ==
    ASSUME CacheType, Covered, NEW p \in Procs, NEW d \in Docs, Accept(p, d),
           file' = d,
           \A q \in Procs : \A e \in accepted[q] : AtMost(e, d),
           \A q \in Procs \ {p} : pc[q] = "verified" => AtMost(d, got[q]),
           \A q \in Procs \ {p} : pc[q] \in Storing => d.ver < got[q].ver
    PROVE  Covered'
<1>1. /\ \A q \in Procs : accepted'[q] \subseteq accepted[q] \cup {d}
      /\ \A q \in Procs : accepted[q] \subseteq Docs
      /\ pc'[p] \in Calm
      /\ \A q \in Procs \ {p} : pc'[q] = pc[q] /\ got'[q] = got[q]
  BY AcceptType DEF CacheType
<1>2. \A q \in Procs : pc'[q] \in Recording => q # p /\ pc[q] = pc'[q] /\ got[q] = got'[q]
  BY <1>1 DEF Calm, Recording, Storing
<1>3. \A q \in Procs : \A e \in accepted'[q] : AtMost(e, d)
  BY <1>1 DEF AtMost
<1>4. \A q, r \in Procs : pc'[q] = "verified" => \A e \in accepted'[r] : AtMost(e, got'[q])
  BY <1>1, <1>2 DEF Covered, Recording
<1>5. \A q \in Procs : pc'[q] = "verified" => AtMost(d, got'[q])
  BY <1>2 DEF Recording
<1>6. \A q, r \in Procs : pc'[q] \in Storing => \A e \in accepted'[r] : e.ver < got'[q].ver
  BY <1>1, <1>2 DEF Covered, Recording
<1>7. \A q \in Procs : pc'[q] \in Storing => d.ver < got'[q].ver
  BY <1>2 DEF Recording
<1>8. \A q, r \in Procs : \A e \in accepted'[q], f \in accepted'[r] : e.ver = f.ver => e = f
  <2> SUFFICES ASSUME NEW q \in Procs, NEW r \in Procs,
                      NEW e \in accepted'[q], NEW f \in accepted'[r], e.ver = f.ver
               PROVE  e = f
    BY SMT
  <2>1. CASE e \in accepted[q] /\ f \in accepted[r]
    BY <2>1 DEF Covered
  <2>2. CASE e = d /\ f \in accepted[r]
    BY <1>1, <2>2, AtMostFacts
  <2>3. CASE f = d /\ e \in accepted[q]
    BY <1>1, <2>3, AtMostFacts
  <2>4. CASE e = d /\ f = d
    BY <2>4
  <2> QED  BY <1>1, <2>1, <2>2, <2>3, <2>4
<1>9. file' # Torn
  BY DocFacts
<1> QED
  BY <1>3, <1>4, <1>5, <1>6, <1>7, <1>8, <1>9 DEF Covered

\* Who accepts is the only one recording, or took the file as it is.
LEMMA AcceptAlone ==
    ASSUME CacheType, Alone, NEW p \in Procs, NEW d \in Docs, Accept(p, d),
           \A q \in Procs : fd'[q] = IF q = p THEN "none" ELSE fd[q],
           tmp' = tmp \/ \A q \in Procs \ {p} : got[q] = NoDoc
    PROVE  Alone'
<1>1. /\ pc'[p] \in Calm /\ got'[p] = NoDoc
      /\ \A q \in Procs \ {p} : pc'[q] = pc[q] /\ got'[q] = got[q]
      /\ \A q \in Procs : got[q] # NoDoc <=> pc[q] \in Recording
  BY AcceptType DEF CacheType
<1>2. \A q, r \in Procs : got'[q] # NoDoc /\ got'[r] # NoDoc => q = r
  BY <1>1 DEF Alone
<1>3. \A q \in Procs : fd'[q] = IF pc'[q] = "write" THEN "tmp" ELSE "none"
  BY <1>1 DEF Alone, Calm
<1>4. \A q \in Procs : pc'[q] \in Recording => q # p /\ tmp' = tmp
  BY <1>1 DEF Calm, Recording, Storing
<1>5. \A q \in Procs : pc'[q] = "write" => tmp' = Torn
  BY <1>1, <1>4 DEF Alone, Recording, Storing
<1>6. \A q \in Procs : pc'[q] = "rename" => tmp' = got'[q]
  BY <1>1, <1>4 DEF Alone, Recording, Storing
<1> QED  BY <1>2, <1>3, <1>5, <1>6 DEF Alone

\* Wherever a document is accepted, it covers all documents accepted before.
Taken(p, d) ==
    /\ d \in Docs /\ Accept(p, d) /\ file' = d
    /\ UNCHANGED overlapped
    /\ \A q \in Procs : \A e \in accepted[q] : AtMost(e, d)
    /\ \A q \in Procs \ {p} : pc[q] = "verified" => AtMost(d, got[q])
    /\ \A q \in Procs \ {p} : pc[q] \in Storing => d.ver < got[q].ver
    /\ \A q \in Procs : fd'[q] = IF q = p THEN "none" ELSE fd[q]
    /\ tmp' = tmp \/ \A q \in Procs \ {p} : got[q] = NoDoc

\* prime_reuse takes the baseline itself.
LEMMA ReuseTaken ==
    ASSUME CacheType, Alone, Covered, NEW p \in Procs, prime_reuse(p)
    PROVE  Taken(p, file)
<1>1. /\ file \in Docs /\ Accept(p, file) /\ pc[p] = "down"
      /\ UNCHANGED <<fd, tmp, file, overlapped>>
  BY DEF prime_reuse, Reusable, verify, fileVars
<1>2. file # Torn /\ file # NoDoc
  BY <1>1, DocFacts
<1>3. \A q \in Procs : fd'[q] = IF q = p THEN "none" ELSE fd[q]
  BY <1>1 DEF Alone
<1>4. \A q \in Procs : \A e \in accepted[q] : AtMost(e, file)
  BY <1>2 DEF Covered
<1>5. \A q \in Procs : pc[q] = "verified" => AtMost(file, got[q])
  BY <1>2 DEF Covered
<1>6. \A q \in Procs : pc[q] \in Storing => file.ver < got[q].ver
  BY <1>2 DEF Covered
<1> QED  BY <1>1, <1>3, <1>4, <1>5, <1>6 DEF Taken

\* While p records nobody else does.
LEMMA OthersQuiet ==
    ASSUME CacheType, Alone, NEW p \in Procs, pc[p] \in Recording
    PROVE  /\ got[p] \in Docs
           /\ \A q \in Procs \ {p} : got[q] = NoDoc /\ pc[q] \notin Recording
BY SMT DEF CacheType, Alone

\* remember takes a document without storing it only if it is the baseline.
LEMMA RememberTaken ==
    ASSUME CacheType, Alone, Covered, NEW p \in Procs, remember(p)
    PROVE  Taken(p, got[p])
<1>1. /\ Accept(p, got[p]) /\ pc[p] = "verified" /\ file # Torn /\ file.ver >= got[p].ver
      /\ UNCHANGED <<fd, tmp, file, overlapped>>
  BY DEF remember, fileVars, Readable
<1>2. /\ got[p] \in Docs
      /\ \A q \in Procs \ {p} : got[q] = NoDoc /\ pc[q] \notin Recording
  BY <1>1, OthersQuiet DEF Recording
<1>3. file \in Docs
  BY SMT, <1>1, <1>2, DocFacts DEF CacheType
<1>4. AtMost(file, got[p])
  BY <1>1, <1>3, DocFacts DEF Covered
<1>5. file = got[p]
  BY SMT, <1>1, <1>2, <1>3, <1>4, DocFacts DEF AtMost
<1>6. \A q \in Procs : \A e \in accepted[q] : AtMost(e, got[p])
  BY <1>1 DEF Covered
<1>7. \A q \in Procs : fd'[q] = IF q = p THEN "none" ELSE fd[q]
  BY <1>1 DEF Alone
<1> QED  BY <1>1, <1>2, <1>5, <1>6, <1>7 DEF Taken, Recording

\* The renamed file is the document that was to be stored.
LEMMA RenameTaken ==
    ASSUME CacheType, Alone, Covered, NEW p \in Procs, store_rename(p)
    PROVE  Taken(p, got[p])
<1>1. /\ Accept(p, got[p]) /\ pc[p] = "rename" /\ file' = tmp
      /\ fd' = [q \in Procs |-> IF fd[q] = "tmp" THEN "file" ELSE "none"]
      /\ UNCHANGED overlapped
  BY DEF store_rename
<1>2. /\ got[p] \in Docs
      /\ \A q \in Procs \ {p} : got[q] = NoDoc /\ pc[q] \notin Recording
  BY <1>1, OthersQuiet DEF Recording, Storing
<1>3. tmp = got[p]
  BY <1>1 DEF Alone
<1>4. \A q \in Procs : \A e \in accepted[q] : AtMost(e, got[p])
  BY <1>1 DEF Covered, AtMost, Storing
<1>5. \A q \in Procs : fd[q] = "none"
  BY <1>1, <1>2 DEF Alone, Recording, Storing
<1>6. \A q \in Procs : fd'[q] = IF q = p THEN "none" ELSE fd[q]
  BY <1>1, <1>5
<1> QED  BY <1>1, <1>2, <1>3, <1>4, <1>6 DEF Taken, Recording

\* All steps of Serial that accept.
LEMMA TakenSerial ==
    ASSUME CacheType, Serial, NEW p \in Procs, NEW d,
           Alone /\ Covered => Taken(p, d), overlapped' = overlapped
    PROVE  Serial'
<1> SUFFICES ASSUME ~overlapped' PROVE Alone' /\ Covered'
  BY DEF Serial
<1>1. Alone /\ Covered /\ Taken(p, d)
  BY DEF Serial
<1>2. Alone'
  BY <1>1, AcceptAlone DEF Taken
<1>3. Covered'
  BY <1>1, AcceptCovered DEF Taken
<1> QED  BY <1>2, <1>3

\* A verified document is on its way: it covers the baseline, hence all that
\* was accepted.
LEMMA VerifiedSerial ==
    ASSUME CacheType, Serial, NEW p \in Procs, NEW d \in Docs, accept_body(p, d)
    PROVE  Serial'
<1> SUFFICES ASSUME ~overlapped' PROVE Alone' /\ Covered'
  BY DEF Serial
<1>1. /\ ~overlapped /\ \A q \in Procs \ {p} : got[q] = NoDoc
  BY DEF accept_body
<1>2. Alone /\ Covered
  BY <1>1 DEF Serial
<1>3. /\ pc[p] = "fetching" /\ file # Torn /\ verify(d, asked[p], file)
      /\ pc' = [pc EXCEPT ![p] = "verified"] /\ got' = [got EXCEPT ![p] = d]
      /\ UNCHANGED <<fd, tmp, file, accepted>>
  BY DEF accept_body, Readable, fileVars
<1>4. /\ \A q \in Procs \ {p} : pc'[q] = pc[q] /\ got'[q] = got[q] /\ pc[q] \notin Recording
      /\ pc'[p] = "verified" /\ got'[p] = d
  BY <1>1, <1>3 DEF CacheType
<1>5. Alone'
  <2>1. \A q, r \in Procs : got'[q] # NoDoc /\ got'[r] # NoDoc => q = r
    BY <1>1, <1>4
  <2>2. ASSUME NEW q \in Procs
        PROVE  /\ fd'[q] = IF pc'[q] = "write" THEN "tmp" ELSE "none"
               /\ pc'[q] = "write" => tmp' = Torn
               /\ pc'[q] = "rename" => tmp' = got'[q]
    <3>1. CASE q = p
      BY <1>2, <1>3, <1>4, <3>1 DEF Alone
    <3>2. CASE q # p
      <4>1. pc'[q] = pc[q] /\ got'[q] = got[q]
        BY <1>4, <3>2
      <4> QED  BY <1>2, <1>3, <4>1 DEF Alone
    <3> QED  BY <3>1, <3>2
  <2> QED  BY <2>1, <2>2 DEF Alone
<1>6. file = NoDoc \/ AtMost(file, d)
  BY <1>3, Rollback DEF CacheType
<1>7. \A q \in Procs : \A e \in accepted[q] : AtMost(e, d)
  <2> SUFFICES ASSUME NEW q \in Procs, NEW e \in accepted[q] PROVE AtMost(e, d)
    BY SMT
  <2>1. e \in Docs /\ AtMost(e, file)
    BY <1>2, <1>3 DEF Covered, CacheType
  <2>2. file \in Docs
    BY SMT, <1>3, <2>1, DocFacts DEF CacheType, AtMost
  <2>3. AtMost(file, d)
    BY <1>6, <2>2, DocFacts
  <2>4. e.ver \in Nat /\ file.ver \in Nat /\ d.ver \in Nat
    BY <2>1, <2>2, DocFacts
  <2> QED  BY SMT, <2>1, <2>3, <2>4 DEF AtMost
<1>8. Covered'
  <2>1. \A q \in Procs : /\ pc'[q] = "verified" => q = p
                         /\ pc'[q] \notin Storing
    BY <1>4 DEF Recording, Storing
  <2>2. file \in {Torn, NoDoc} \/ AtMost(file, d)
    BY <1>6
  <2>3. \A q, r \in Procs : pc'[q] = "verified" =>
            \A e \in accepted'[r] : AtMost(e, got'[q])
    BY <1>3, <1>4, <1>7, <2>1
  <2>4. \A q \in Procs : pc'[q] = "verified" =>
            file' \in {Torn, NoDoc} \/ AtMost(file', got'[q])
    BY <1>3, <1>4, <2>1, <2>2
  <2>5. /\ \A q \in Procs : \A e \in accepted'[q] : file' # Torn => AtMost(e, file')
        /\ \A q, r \in Procs : \A e \in accepted'[q], f \in accepted'[r] :
              e.ver = f.ver => e = f
    BY <1>2, <1>3 DEF Covered
  <2> QED  BY <2>1, <2>3, <2>4, <2>5 DEF Covered, AtMost
<1> QED  BY <1>5, <1>8

\* Every step keeps the order of recording.
LEMMA SerialStep ==
    ASSUME CacheType, Serial, Step
    PROVE  Serial'
<1>1. ASSUME NEW p \in Procs, prime_reuse(p) PROVE Serial'
  <2>1. overlapped' = overlapped
    BY <1>1 DEF prime_reuse
  <2> QED  BY <1>1, <2>1, ReuseTaken, TakenSerial
<1>2. ASSUME NEW p \in Procs, StartFetch(p), pc[p] \in Calm PROVE Serial'
  <2>1. GivesUp(p)
    BY <1>2 DEF StartFetch, GivesUp, fileVars, CacheType, Calm, Recording, Storing
  <2> QED  BY <2>1, GivesUpSerial
<1>3. ASSUME NEW p \in Procs, prime_fetch(p) PROVE Serial'
  BY <1>2, <1>3 DEF prime_fetch, Calm
<1>4. ASSUME NEW p \in Procs, refresh_if_stale(p) PROVE Serial'
  BY <1>2, <1>4 DEF refresh_if_stale, Calm
<1>5. ASSUME NEW p \in Procs, remember(p) PROVE Serial'
  <2>1. overlapped' = overlapped
    BY <1>5 DEF remember
  <2> QED  BY <1>5, <2>1, RememberTaken, TakenSerial
<1>6. ASSUME NEW p \in Procs, remember_store(p) PROVE Serial'
  <2> SUFFICES ASSUME ~overlapped' PROVE Alone' /\ Covered'
    BY DEF Serial
  <2>1. /\ pc[p] = "verified" /\ pc' = [pc EXCEPT ![p] = "open"]
        /\ file # Torn /\ file.ver < got[p].ver
        /\ UNCHANGED <<got, fd, tmp, file, accepted, overlapped>>
    BY <1>6 DEF remember_store, Readable, fileVars
  <2>2. Alone /\ Covered
    BY <2>1 DEF Serial
  <2>3. pc'[p] = "open" /\ \A q \in Procs \ {p} : pc'[q] = pc[q]
    BY <2>1 DEF CacheType
  <2>4. Alone'
    BY <2>1, <2>2, <2>3 DEF Alone
  <2>5. \A q \in Procs : \A e \in accepted[q] : e.ver < got[p].ver
    <3> SUFFICES ASSUME NEW q \in Procs, NEW e \in accepted[q] PROVE e.ver < got[p].ver
      BY SMT
    <3>1. e \in Docs /\ AtMost(e, file) /\ got[p] \in Docs
      BY <2>1, <2>2, OthersQuiet DEF Covered, CacheType, Recording
    <3>2. file \in Docs
      BY SMT, <2>1, <3>1, DocFacts DEF CacheType, AtMost
    <3>3. e.ver \in Nat /\ file.ver \in Nat /\ got[p].ver \in Nat
      BY <3>1, <3>2, DocFacts
    <3> QED  BY SMT, <2>1, <3>1, <3>3 DEF AtMost
  <2>6. Covered'
    <3>1. \A q \in Procs : /\ pc'[q] = "verified" => pc[q] = "verified"
                           /\ pc'[q] \in Storing => q = p \/ pc[q] \in Storing
      BY <2>3
    <3>2. \A q, r \in Procs : pc'[q] \in Storing =>
              \A e \in accepted'[r] : e.ver < got'[q].ver
      BY <2>1, <2>2, <2>5, <3>1 DEF Covered
    <3>3. \A q \in Procs : pc'[q] \in Storing => file' = Torn \/ file'.ver < got'[q].ver
      BY <2>1, <2>2, <3>1 DEF Covered
    <3>4. /\ \A q, r \in Procs : pc'[q] = "verified" =>
                \A e \in accepted'[r] : AtMost(e, got'[q])
          /\ \A q \in Procs : pc'[q] = "verified" =>
                file' \in {Torn, NoDoc} \/ AtMost(file', got'[q])
      BY <2>1, <2>2, <3>1 DEF Covered
    <3>5. /\ \A q \in Procs : \A e \in accepted'[q] : file' # Torn => AtMost(e, file')
          /\ \A q, r \in Procs : \A e \in accepted'[q], f \in accepted'[r] :
                e.ver = f.ver => e = f
        BY <2>1, <2>2 DEF Covered
    <3> QED  BY <3>2, <3>3, <3>4, <3>5 DEF Covered, AtMost
  <2> QED  BY <2>4, <2>6
<1>7. ASSUME NEW p \in Procs, remember_error(p) PROVE Serial'
  BY <1>7, FailGivesUp, GivesUpSerial DEF remember_error, fileVars
<1>8. ASSUME NEW p \in Procs, store_open(p) PROVE Serial'
  <2> SUFFICES ASSUME ~overlapped' PROVE Alone' /\ Covered'
    BY DEF Serial
  <2>1. /\ pc[p] = "open" /\ pc' = [pc EXCEPT ![p] = "write"]
        /\ fd' = [fd EXCEPT ![p] = "tmp"] /\ tmp' = Torn
        /\ UNCHANGED <<got, file, accepted, overlapped>>
    BY <1>8 DEF store_open
  <2>2. Alone /\ Covered
    BY <2>1 DEF Serial
  <2>3. /\ pc'[p] = "write" /\ fd'[p] = "tmp"
        /\ \A q \in Procs \ {p} : pc'[q] = pc[q] /\ fd'[q] = fd[q] /\ pc[q] \notin Recording
    BY <2>1, <2>2, OthersQuiet DEF CacheType, Recording, Storing
  <2>4. Alone'
    <3>1. ASSUME NEW q \in Procs
          PROVE  /\ fd'[q] = IF pc'[q] = "write" THEN "tmp" ELSE "none"
                 /\ pc'[q] = "write" => tmp' = Torn
                 /\ pc'[q] = "rename" => tmp' = got'[q]
      <4>1. CASE q = p
        BY <2>1, <2>3, <4>1
      <4>2. CASE q # p
        <5>1. pc'[q] = pc[q] /\ fd'[q] = fd[q] /\ pc[q] # "rename"
          BY <2>3, <4>2 DEF Recording, Storing
        <5> QED  BY <2>1, <2>2, <5>1 DEF Alone
      <4> QED  BY <4>1, <4>2
    <3>2. \A q, r \in Procs : got'[q] # NoDoc /\ got'[r] # NoDoc => q = r
      BY <2>1, <2>2 DEF Alone
    <3> QED  BY <3>1, <3>2 DEF Alone
  <2>5. Covered'
    BY SMT, <2>1, <2>2, <2>3 DEF Covered, Storing
  <2> QED  BY <2>4, <2>5
<1>9. ASSUME NEW p \in Procs, store_write(p) PROVE Serial'
  <2> SUFFICES ASSUME ~overlapped' PROVE Alone' /\ Covered'
    BY DEF Serial
  <2>1. /\ pc[p] = "write" /\ pc' = [pc EXCEPT ![p] = "rename"]
        /\ fd' = [fd EXCEPT ![p] = "none"]
        /\ UNCHANGED <<got, accepted, overlapped>>
    BY <1>9 DEF store_write
  <2>2. Alone /\ Covered
    BY <2>1 DEF Serial
  <2>3. fd[p] = "tmp" /\ tmp = Torn
    BY <2>1, <2>2 DEF Alone
  <2>4. tmp' = got[p] /\ file' = file
    BY <1>9, <2>3 DEF store_write, Written
  <2>5. /\ pc'[p] = "rename" /\ fd'[p] = "none"
        /\ \A q \in Procs \ {p} : pc'[q] = pc[q] /\ fd'[q] = fd[q] /\ pc[q] \notin Recording
    BY <2>1, <2>2, OthersQuiet DEF CacheType, Recording, Storing
  <2>6. Alone'
    BY SMT, <2>1, <2>2, <2>4, <2>5 DEF Alone, Recording, Storing
  <2>7. Covered'
    BY SMTT(30), <2>1, <2>2, <2>4, <2>5 DEF Covered, Storing
  <2> QED  BY <2>6, <2>7
<1>10. ASSUME NEW p \in Procs, store_rename(p) PROVE Serial'
  <2>1. overlapped' = overlapped
    BY <1>10 DEF store_rename
  <2> QED  BY <1>10, <2>1, RenameTaken, TakenSerial
<1>11. ASSUME NEW p \in Procs, store_rename_error(p) PROVE Serial'
  BY <1>11, FailGivesUp, GivesUpSerial DEF store_rename_error, fileVars
<1>12. ASSUME NEW p \in Procs, NEW d \in Docs, accept_body(p, d) PROVE Serial'
  BY <1>12, VerifiedSerial
<1>13. ASSUME NEW p \in Procs, NEW d \in Docs, accept_body_error(p, d) PROVE Serial'
  BY <1>13, FailGivesUp, GivesUpSerial DEF accept_body_error, fileVars
<1>14. ASSUME NEW p \in Procs, fetch_error(p) PROVE Serial'
  BY <1>14, FailGivesUp, GivesUpSerial DEF fetch_error, fileVars
<1>15. ASSUME NEW p \in Procs, store_error(p) PROVE Serial'
  <2>1. Fail(p) /\ fd' = [fd EXCEPT ![p] = "none"]
        /\ UNCHANGED <<tmp, file, accepted, overlapped>>
    BY <1>15 DEF store_error
  <2>2. fd'[p] = "none" /\ (\A q \in Procs \ {p} : fd'[q] = fd[q])
    BY <2>1 DEF CacheType
  <2> QED  BY <2>1, <2>2, FailGivesUp, GivesUpSerial
<1>16. ASSUME NEW p \in Procs, Crash(p) PROVE Serial'
  <2>1. GivesUp(p)
    BY <1>16 DEF Crash, GivesUp, CacheType, Calm
  <2> QED  BY <2>1, GivesUpSerial
<1>17. CASE Damage
  <2>1. /\ file' = Torn
        /\ UNCHANGED <<pc, got, fd, tmp, accepted, overlapped>>
    BY <1>17 DEF Damage
  <2>2. Alone => Alone'
    BY <2>1 DEF Alone
  <2>3. Covered => Covered'
    BY <2>1 DEF Covered
  <2> QED  BY <2>1, <2>2, <2>3 DEF Serial
<1>18. CASE Tick \/ UNCHANGED vars
  <2>1. UNCHANGED <<pc, got, fd, tmp, file, accepted, overlapped>>
    BY <1>18 DEF Tick, vars, fileVars
  <2>2. Alone => Alone'
    BY <2>1 DEF Alone
  <2>3. Covered => Covered'
    BY <2>1 DEF Covered, AtMost
  <2> QED  BY <2>1, <2>2, <2>3 DEF Serial
<1> QED
  BY <1>1, <1>3, <1>4, <1>5, <1>6, <1>7, <1>8, <1>9, <1>10, <1>11, <1>12, <1>13, <1>14,
     <1>15, <1>16, <1>17, <1>18, Zenon DEF Step

(***************************************************************************)
(* Theorems.                                                               *)
(***************************************************************************)
\* The inductive invariant.
THEOREM RecordingInOrder == Spec => [](CacheType /\ Serial)
<1>1. Init => CacheType
  <2> SUFFICES ASSUME Init PROVE CacheType
    BY SMT
  <2>1. overlapped \in BOOLEAN /\ accepted \in [Procs -> SUBSET Docs]
    BY DEF Init
  <2>2. \A p \in Procs : pc[p] = "down" /\ got[p] = NoDoc
    BY DEF Init
  <2>3. \A p \in Procs : got[p] # NoDoc <=> pc[p] \in Recording
    BY <2>2 DEF Recording, Storing
  <2>4. pc \in [Procs -> Calm \cup Recording] /\ fd \in [Procs -> {"none", "tmp", "file"}]
    BY DEF Init, Calm
  <2>5. /\ got \in [Procs -> Docs \cup {NoDoc}] /\ current \in [Procs -> Docs \cup {NoDoc}]
        /\ handle \in [Procs -> Docs \cup {NoDoc}]
    BY DEF Init
  <2>6. tmp = NoDoc /\ file = NoDoc
    BY DEF Init
  <2> QED  BY <2>1, <2>3, <2>4, <2>5, <2>6 DEF CacheType
<1>2. Init => Serial
  BY DocFacts DEF Init, Serial, Alone, Covered, Storing
<1>3. CacheType /\ Serial /\ [Next]_vars => (CacheType /\ Serial)'
  BY NextSteps, TypeStep, SerialStep
<1> QED  BY <1>1, <1>2, <1>3, PTL DEF Spec

\* Whatever crashes and failures happen between the steps of state::store, the
\* file it replaces parses, for any number of processes.
THEOREM StoreIsAtomic == Spec => SerialStoreAtomic
<1>1. ASSUME CacheType, Serial, [Next]_vars, ~overlapped', file' = Torn
      PROVE  file = Torn \/ UNCHANGED pc
  <2>1. Step
    BY <1>1, NextSteps
  <2>2. ASSUME NEW p \in Procs, NEW d, Alone /\ Covered => Taken(p, d), overlapped' = overlapped
        PROVE  FALSE
    BY <1>1, <2>2, DocFacts DEF Serial, Taken
  <2>3. ASSUME NEW p \in Procs, prime_reuse(p) PROVE FALSE
    BY <1>1, <2>2, <2>3, ReuseTaken DEF prime_reuse
  <2>4. ASSUME NEW p \in Procs, remember(p) PROVE FALSE
    BY <1>1, <2>2, <2>4, RememberTaken DEF remember
  <2>5. ASSUME NEW p \in Procs, store_rename(p) PROVE FALSE
    BY <1>1, <2>2, <2>5, RenameTaken DEF store_rename
  <2>6. ASSUME NEW p \in Procs, store_write(p) PROVE file' = file
    <3>1. overlapped' = overlapped /\ pc[p] = "write"
      BY <2>6 DEF store_write
    <3>2. fd[p] = "tmp"
      BY <1>1, <3>1 DEF Serial, Alone
    <3> QED  BY <2>6, <3>2 DEF store_write
  <2>7. \/ \E p \in Procs : prime_reuse(p) \/ remember(p) \/ store_rename(p) \/ store_write(p)
        \/ UNCHANGED file \/ UNCHANGED pc
    BY <2>1 DEF Step, prime_fetch, refresh_if_stale, StartFetch, remember_store, remember_error,
       store_open, store_rename_error, accept_body, accept_body_error,
       fetch_error, store_error, Crash, Damage, Tick, vars, fileVars
  <2> QED  BY <1>1, <2>3, <2>4, <2>5, <2>6, <2>7
<1>2. CacheType /\ Serial /\ [Next]_vars =>
        [~overlapped' /\ file' = Torn => file = Torn \/ UNCHANGED pc]_vars
  BY <1>1
<1> QED  BY <1>2, RecordingInOrder, PTL DEF Spec, SerialStoreAtomic

\* No process takes two documents of one version, in however many lives.
THEOREM OneBodyPerVersion == Spec => []SerialNoEquivocation
<1>1. CacheType /\ Serial => SerialNoEquivocation
  BY DEF Serial, Covered, SerialNoEquivocation
<1> QED  BY <1>1, RecordingInOrder, PTL

\* No process takes an older document than one it held before, in this life or
\* an earlier one, through any crashes, failed stores and damage to the file.
THEOREM NeverBack == Spec => SerialNoRollback
<1>1. ASSUME CacheType, Serial, [Next]_vars, ~overlapped' PROVE Advances
  <2>1. Step
    BY <1>1, NextSteps
  <2>2. ASSUME NEW p \in Procs, NEW d, Alone /\ Covered => Taken(p, d), overlapped' = overlapped
        PROVE  Advances
    <3>1. Taken(p, d) /\ d \in Docs
      BY <1>1, <2>2 DEF Serial, Taken
    <3>2. /\ \A q \in Procs \ {p} : current'[q] = current[q]
          /\ current'[p] \in {d, NoDoc}
      BY <1>1, <3>1, AcceptType DEF Taken
    <3>3. \A e \in accepted[p] : e.ver <= d.ver
      BY <1>1, <3>1, AtMostFacts DEF Taken, CacheType
    <3> QED  BY <3>2, <3>3 DEF Advances
  <2>3. ASSUME NEW p \in Procs, prime_reuse(p) PROVE Advances
    BY <1>1, <2>2, <2>3, ReuseTaken DEF prime_reuse
  <2>4. ASSUME NEW p \in Procs, remember(p) PROVE Advances
    BY <1>1, <2>2, <2>4, RememberTaken DEF remember
  <2>5. ASSUME NEW p \in Procs, store_rename(p) PROVE Advances
    BY <1>1, <2>2, <2>5, RenameTaken DEF store_rename
  <2>6. ASSUME NEW p \in Procs, Fail(p) \/ current' = [current EXCEPT ![p] = NoDoc] PROVE Advances
    BY <1>1, <2>6 DEF Fail, Advances, CacheType
  <2>7. ASSUME current' = current PROVE Advances
    BY <2>7 DEF Advances
  <2>8. \/ \E p \in Procs : prime_reuse(p) \/ remember(p) \/ store_rename(p)
        \/ \E p \in Procs : Fail(p) \/ current' = [current EXCEPT ![p] = NoDoc]
        \/ current' = current
    BY <2>1 DEF Step, prime_fetch, refresh_if_stale, StartFetch, remember_store, remember_error,
       store_open, store_write, store_rename_error, accept_body, accept_body_error,
       fetch_error, store_error, Crash, Damage, Tick, vars
  <2> QED  BY <2>3, <2>4, <2>5, <2>6, <2>7, <2>8
<1>2. CacheType /\ Serial /\ [Next]_vars => [~overlapped' => Advances]_vars
  BY <1>1
<1> QED  BY <1>2, RecordingInOrder, PTL DEF Spec, SerialNoRollback

(***************************************************************************)
(* RelayProcess, for any number of keygen runs, starts and removals of the *)
(* key file, any configuration and any connections.                        *)
(***************************************************************************)

(***************************************************************************)
(* The inductive invariant.  The key file belongs to the run that created  *)
(* it, and is whole once that run has written it; main is where it is      *)
(* because every step before it succeeded; and connections and tasks exist *)
(* only while main serves.                                                 *)
(***************************************************************************)
KeyFileType ==
    /\ keygen \in [Runs -> {"idle", "writing", "failed", "written", "printed"}]
    /\ keyFile \in [st : {"absent", "part", "whole"}, key : Runs \cup {0}]
    /\ removed \subseteq Runs

\* A run between its create and its write owns the file, until it is removed.
WriterOwnsFile ==
    \A r \in Runs :
        keygen[r] = "writing" /\ r \notin removed => keyFile = [st |-> "part", key |-> r]

\* A run that has not begun has no file, present or removed.
IdleOwnsNothing ==
    \A r \in Runs : keygen[r] = "idle" => r \notin removed /\ keyFile.key # r

\* A file that is there is one no operator removed, and whole only when the run
\* that created it wrote it.
FileHasWriter ==
    /\ keyFile.st # "absent" => keyFile.key \in Runs
    /\ keyFile.key \notin removed
    /\ keyFile.st = "whole" => keygen[keyFile.key] \in KeyWritten

KeyFileInv == KeyFileType /\ WriterOwnsFile /\ IdleOwnsNothing /\ FileHasWriter /\ WrittenKeyKept

Listening == {"serving", "stopping"}
Keyed == {"pin", "acme", "connector", "registry", "bind"} \cup Listening

StartInv ==
    /\ proxy \in Proxies
    /\ mainAt \in {"down", "key"} \cup Keyed
    /\ mainAt # "down" => from_source(proxy)
    /\ mainAt \in Keyed => key \in Runs /\ keygen[key] \in KeyWritten
    /\ mainAt \in Keyed \ {"pin"} => pinned
    /\ mainAt \in {"bind"} \cup Listening => registry

TaskType == task \in [Tasks -> {"off", "spawned", "waiting", "notified", "sending", "stopped"}]
Stages == {"none", "tls", "proto", "presentation", "start", "msg1", "circuit", "extending",
           "dialling", "serve", "redirect"}
Links == {"none", "next", "dest"}
ConnSet == [at : Stages, read : Nat, port : Ports \cup {0}, link : Links, opened : Nat]
ConnType == conn \in ConnSet

\* The links a circuit opened and has not seen the end of: the one it has.
LinkInv ==
    /\ conn.opened = IF conn.link = "none" THEN 0 ELSE 1
    /\ conn.link # "none" => conn.at = "circuit"

\* A connection lives in a relay that listens, and no exit is misconfigured.
AliveInv ==
    /\ conn.at # "none" \/ (\E t \in Tasks : task[t] # "off") => mainAt \in Listening
    /\ conn.at # "misconfigured"
    /\ conn.port # 0 => role = "exit" /\ conn.port \in allowed

ConnInv == TaskType /\ ConnType /\ LinkInv /\ AliveInv

ProcessInv == KeyFileInv /\ StartInv /\ ConnInv

\* Records of a connection.
LEMMA ConnRecord ==
  ASSUME NEW s \in Stages, NEW i \in Nat, NEW p \in Ports \cup {0}, NEW k \in Links, NEW n \in Nat
  PROVE  [at |-> s, read |-> i, port |-> p, link |-> k, opened |-> n] \in ConnSet
  BY DEF ConnSet

\* A connection changes its stage.
LEMMA SetStage ==
  ASSUME NEW c \in ConnSet, NEW s \in Stages, NEW d, d = [c EXCEPT !.at = s]
  PROVE  d \in ConnSet /\ d.at = s /\ d.port = c.port /\ d.link = c.link /\ d.opened = c.opened
  BY DEF ConnSet

\* What a connection that is not there has in its fields.
LEMMA NoConnType ==
  /\ NoConn \in ConnSet
  /\ NoConn.at = "none" /\ NoConn.port = 0 /\ NoConn.link = "none" /\ NoConn.opened = 0
<1>1. 0 \in Nat /\ 0 \in Ports \cup {0} /\ "none" \in Stages /\ "none" \in Links
  BY SMT DEF Stages, Links
<1>2. NoConn \in ConnSet
  BY <1>1, ConnRecord DEF NoConn
<1> QED BY <1>2 DEF NoConn

\* The invariant holds before any key is generated and before main starts.
LEMMA ProcessInvInit == ProcessInit => ProcessInv
<1> SUFFICES ASSUME ProcessInit PROVE ProcessInv
  BY SMT
<1>1. KeyFileInv
  <2>1. /\ keygen = [r \in Runs |-> "idle"] /\ removed = {} /\ 0 \notin Runs
        /\ keyFile = [st |-> "absent", key |-> 0]
    BY ProcessAssumption DEF ProcessInit, NoFile
  <2> QED BY SMT, <2>1 DEF KeyFileInv, KeyFileType, WriterOwnsFile, IdleOwnsNothing, FileHasWriter, WrittenKeyKept, KeyWritten
<1>2. StartInv
  BY DEF ProcessInit, StartInv, Keyed, Listening
<1>3. ConnInv
  <2>1. TaskType /\ \A t \in Tasks : task[t] = "off"
    BY DEF ProcessInit, TaskType, Idle
  <2> QED BY <2>1, NoConnType DEF ProcessInit, ConnInv, ConnType, LinkInv, AliveInv
<1> QED BY <1>1, <1>2, <1>3 DEF ProcessInv

(***************************************************************************)
(* keygen.                                                                 *)
(***************************************************************************)
\* A keygen run creates the file only if it is absent, writes its own file only,
\* and what it wrote stays written.
LEMMA KeygenStep ==
  ASSUME KeyFileInv, NEW r \in Runs,
         generate_open(r) \/ generate_write(r) \/ run_keygen_print(r) \/ generate_fail(r)
  PROVE  /\ KeyFileInv'
         /\ \A s \in Runs : keygen[s] \in KeyWritten => keygen'[s] \in KeyWritten
<1> USE DEF KeyFileInv, KeyFileType, WriterOwnsFile, IdleOwnsNothing, FileHasWriter, WrittenKeyKept, KeyWritten, KeygenTo
<1>0. 0 \notin Runs
  BY ProcessAssumption
<1>1. CASE generate_open(r)
  <2>0. keygen[r] = "idle" /\ removed' = removed
    BY <1>1 DEF generate_open, Begins
  <2>1. CASE keyFile.st = "absent"
    <3>1. /\ keyFile' = [st |-> "part", key |-> r]
          /\ keygen' = [keygen EXCEPT ![r] = "writing"]
      BY <1>1, <2>1 DEF generate_open
    <3>2. \A s \in Runs : s \notin removed => keygen[s] \notin {"written", "printed", "writing"}
      BY SMT, <2>1
    <3> QED BY SMT, <2>0, <3>1, <3>2
  <2>2. CASE keyFile.st # "absent"
    <3>1. keyFile' = keyFile /\ keygen' = [keygen EXCEPT ![r] = "failed"]
      BY <1>1, <2>2 DEF generate_open
    <3> QED BY SMT, <2>0, <3>1
  <2> QED BY <2>1, <2>2
<1>2. CASE generate_write(r)
  <2>1. /\ keygen[r] = "writing" /\ removed' = removed
        /\ keygen' = [keygen EXCEPT ![r] = "written"]
    BY <1>2 DEF generate_write
  <2>2. CASE keyFile.key = r
    <3>1. keyFile' = [st |-> "whole", key |-> r] /\ r \notin removed
      BY <1>2, <2>2 DEF generate_write
    <3> QED BY SMT, <1>0, <2>1, <2>2, <3>1
  <2>3. CASE keyFile.key # r
    <3>1. keyFile' = keyFile
      BY <1>2, <2>3 DEF generate_write
    <3>2. r \in removed
      BY SMT, <2>1, <2>3
    <3> QED BY SMT, <2>1, <2>3, <3>1, <3>2
  <2> QED BY <2>2, <2>3
<1>3. CASE run_keygen_print(r)
  BY SMT, <1>3 DEF run_keygen_print
<1>4. CASE generate_fail(r)
  BY SMT, <1>4 DEF generate_fail, Begins
<1> QED BY <1>1, <1>2, <1>3, <1>4

\* The operator who removes the key file leaves no writer with a claim on it.
LEMMA RemoveStep ==
  ASSUME KeyFileInv, RemoveKey
  PROVE  KeyFileInv' /\ keygen' = keygen
<1>1. /\ keyFile.st # "absent" /\ keyFile' = NoFile /\ keygen' = keygen
      /\ removed' = removed \cup {keyFile.key}
  BY DEF RemoveKey
<1>2. 0 \notin Runs
  BY ProcessAssumption
<1> QED BY SMT, <1>1, <1>2 DEF NoFile, KeyFileInv, KeyFileType, WriterOwnsFile, IdleOwnsNothing, FileHasWriter, WrittenKeyKept, KeyWritten

\* The steps of keygen and of the operator keep the invariant.
LEMMA KeysStep ==
  ASSUME ProcessInv, Keys
  PROVE  ProcessInv'
<1>1. /\ KeyFileInv'
      /\ \A s \in Runs : keygen[s] \in KeyWritten => keygen'[s] \in KeyWritten
  <2>1. CASE \E r \in Runs : \/ generate_open(r) \/ generate_write(r)
                            \/ run_keygen_print(r) \/ generate_fail(r)
    BY <2>1, KeygenStep DEF ProcessInv
  <2>2. CASE RemoveKey
    BY <2>2, RemoveStep DEF ProcessInv
  <2>3. CASE \E r \in Runs : ProvisionRelay(r)
    BY <2>3 DEF ProvisionRelay, ProcessInv, KeyFileInv, KeyFileType, WriterOwnsFile, IdleOwnsNothing, FileHasWriter, WrittenKeyKept, KeyWritten
  <2> QED BY <2>1, <2>2, <2>3 DEF Keys
<1>2. StartInv'
  BY <1>1 DEF ProcessInv, StartInv, KeyWritten, Keys, cfgVars, mainVars, from_source, Keyed, Listening
<1>3. ConnInv'
  BY DEF ProcessInv, ConnInv, TaskType, ConnType, LinkInv, AliveInv, Keys, cfgVars, mainVars, taskVars
<1> QED BY <1>1, <1>2, <1>3 DEF ProcessInv

(***************************************************************************)
(* main.                                                                   *)
(***************************************************************************)

\* The key file is not touched.
LEMMA KeyFileKept ==
  ASSUME KeyFileInv, UNCHANGED keyVars
  PROVE  KeyFileInv'
  BY DEF keyVars, KeyFileInv, KeyFileType, WriterOwnsFile, IdleOwnsNothing, FileHasWriter, WrittenKeyKept, KeyWritten

\* An exit, with or without something to tear down.
LEMMA ExitStep ==
  ASSUME ProcessInv, UNCHANGED <<cfgVars, keyVars>>, Exit,
         \/ UNCHANGED <<taskVars, conn>> /\ mainAt \notin Listening
         \/ task' = Idle /\ conn' = NoConn
  PROVE  ProcessInv'
<1>1. KeyFileInv'
  BY KeyFileKept DEF ProcessInv
<1>2. StartInv'
  BY DEF ProcessInv, StartInv, Exit, cfgVars, Keyed, Listening
<1>3. ConnInv'
  <2>1. CASE UNCHANGED <<taskVars, conn>> /\ mainAt \notin Listening
    BY <2>1 DEF ProcessInv, ConnInv, TaskType, ConnType, LinkInv, AliveInv, Listening, Exit, cfgVars, taskVars
  <2>2. CASE task' = Idle /\ conn' = NoConn
    <3>1. TaskType' /\ \A t \in Tasks : task'[t] = "off"
      BY <2>2 DEF TaskType, Idle
    <3> QED BY <2>2, <3>1, NoConnType DEF ConnInv, ConnType, LinkInv, AliveInv
  <2> QED BY <2>1, <2>2
<1> QED BY <1>1, <1>2, <1>3 DEF ProcessInv

\* A step of main that goes on, before it serves.
LEMMA StartUpStep ==
  ASSUME ProcessInv, UNCHANGED <<cfgVars, keyVars, taskVars, conn>>,
         mainAt \notin Listening, StartInv'
  PROVE  ProcessInv'
<1>1. KeyFileInv'
  BY KeyFileKept DEF ProcessInv
<1>2. ConnInv'
  BY DEF ProcessInv, ConnInv, TaskType, ConnType, LinkInv, AliveInv, Listening, cfgVars, taskVars
<1> QED BY <1>1, <1>2 DEF ProcessInv

\* The steps of main keep the invariant: it goes on only with a written key,
\* then with a pinned authority key, and listens only with a registry.
LEMMA MainStep ==
  ASSUME ProcessInv, Main
  PROVE  ProcessInv'
<1>1. UNCHANGED <<cfgVars, keyVars>> /\ keygen' = keygen /\ proxy' = proxy /\ role' = role
  BY DEF Main, cfgVars, keyVars
<1>2. from_source(proxy)' = from_source(proxy)
  BY <1>1 DEF from_source
<1> USE DEF StartInv, Keyed, Listening, KeyWritten
<1>3. CASE main_config /\ UNCHANGED <<taskVars, conn>>
  <2>1. StartInv'
    BY <1>1, <1>2, <1>3 DEF ProcessInv, main_config
  <2> QED BY <1>1, <1>3, <2>1, StartUpStep DEF main_config
<1>4. CASE main_key /\ UNCHANGED <<taskVars, conn>>
  <2>1. PICK k \in load : IF k # 0 THEN mainAt' = "pin" /\ key' = k /\ UNCHANGED <<pinned, registry, starts>>
                          ELSE Exit
    BY <1>4 DEF main_key
  <2>2. CASE k # 0
    <3>1. k \in Runs /\ keygen[k] \in KeyWritten
      BY <2>2 DEF load, ProcessInv, KeyFileInv, FileHasWriter
    <3>2. StartInv'
      BY <1>1, <1>2, <1>4, <2>1, <2>2, <3>1 DEF ProcessInv, main_key
    <3> QED BY <1>1, <1>4, <3>2, StartUpStep DEF main_key
  <2>3. CASE k = 0
    BY <1>1, <1>4, <2>1, <2>3, ExitStep DEF main_key
  <2> QED BY <2>2, <2>3
<1>5. CASE (fetch_and_pin \/ acme_setup \/ outbound_connector \/ main_registry) /\ UNCHANGED <<taskVars, conn>>
  <2>1. mainAt \in {"pin", "acme", "connector", "registry"}
    BY <1>5 DEF fetch_and_pin, acme_setup, outbound_connector, main_registry
  <2>2. CASE Exit
    BY <1>1, <1>5, <2>1, <2>2, ExitStep
  <2>3. CASE ~Exit
    <3>1. StartInv'
      BY <1>1, <1>2, <1>5, <2>3 DEF ProcessInv, fetch_and_pin, acme_setup, outbound_connector, main_registry
    <3> QED BY <1>1, <1>5, <2>1, <3>1, StartUpStep
  <2> QED BY <2>2, <2>3
<1>6. CASE main_bind /\ UNCHANGED conn
  <2>1. CASE Exit /\ UNCHANGED taskVars
    BY <1>1, <1>6, <2>1, ExitStep DEF main_bind
  <2>2. CASE ~(Exit /\ UNCHANGED taskVars)
    <3>1. /\ mainAt = "bind" /\ mainAt' = "serving" /\ UNCHANGED <<key, pinned, registry, starts>>
          /\ task' = [t \in Tasks |-> IF t = "heartbeat" THEN "sending" ELSE "spawned"]
      BY <1>6, <2>2 DEF main_bind
    <3>2. StartInv'
      BY <1>1, <1>2, <3>1 DEF ProcessInv
    <3>3. ConnInv'
      BY <1>1, <1>6, <3>1 DEF ProcessInv, ConnInv, TaskType, ConnType, LinkInv, AliveInv, cfgVars
    <3> QED BY <1>1, <3>2, <3>3, KeyFileKept DEF ProcessInv
  <2> QED BY <2>1, <2>2
<1>7. CASE ctrl_c /\ UNCHANGED conn
  <2>1. StartInv'
    BY <1>1, <1>2, <1>7 DEF ProcessInv, ctrl_c
  <2>2. ConnInv'
    BY <1>1, <1>7 DEF ProcessInv, ConnInv, TaskType, ConnType, LinkInv, AliveInv, ctrl_c, notify_waiters, cfgVars
  <2> QED BY <1>1, <2>1, <2>2, KeyFileKept DEF ProcessInv
<1>8. CASE main_exit
  BY <1>1, <1>8, ExitStep DEF main_exit
<1> QED BY <1>3, <1>4, <1>5, <1>6, <1>7, <1>8 DEF Main

\* The process is killed.
LEMMA KillStep ==
  ASSUME ProcessInv, Kill, UNCHANGED <<cfgVars, keyVars>>
  PROVE  ProcessInv'
  BY ExitStep DEF Kill

(***************************************************************************)
(* Tasks and connections.                                                  *)
(***************************************************************************)

\* While main stays where it is, only its tasks and the connection matter.
LEMMA ServingStep ==
  ASSUME ProcessInv, UNCHANGED <<cfgVars, keyVars, mainVars>>, ConnInv'
  PROVE  ProcessInv'
<1>1. StartInv'
  BY DEF ProcessInv, StartInv, KeyWritten, Keyed, Listening, cfgVars, keyVars, mainVars, from_source
<1> QED BY <1>1, KeyFileKept DEF ProcessInv

\* The heartbeat, a task that stops and the sweep keep the invariant.
LEMMA BackgroundStep ==
  ASSUME ProcessInv, Background
  PROVE  ProcessInv'
<1>1. UNCHANGED <<cfgVars, keyVars, mainVars, conn>>
  BY DEF Background
<1>2. /\ task' \in [Tasks -> {"off", "spawned", "waiting", "notified", "sending", "stopped"}]
      /\ (\E t \in Tasks : task'[t] # "off") => \E t \in Tasks : task[t] # "off"
  <2>1. "heartbeat" \in Tasks
    BY DEF Tasks
  <2>2. task \in [Tasks -> {"off", "spawned", "waiting", "notified", "sending", "stopped"}]
    BY DEF ProcessInv, ConnInv, TaskType
  <2>3. CASE send_one
    BY <2>1, <2>2, <2>3 DEF send_one
  <2>4. CASE heartbeat_sleep
    BY <2>1, <2>2, <2>4 DEF heartbeat_sleep
  <2>5. CASE \E t \in Tasks : TaskStops(t)
    BY <2>2, <2>5 DEF TaskStops
  <2>7. CASE \E l \in Loops : FirstPoll(l)
    BY <2>2, <2>7 DEF FirstPoll, Tasks
  <2>6. CASE Interval \/ SweepInactiveRelays
    BY <2>2, <2>6 DEF Interval, SweepInactiveRelays, taskVars
  <2> QED BY <2>3, <2>4, <2>5, <2>6, <2>7 DEF Background
<1>3. ConnInv'
  BY <1>1, <1>2 DEF ProcessInv, ConnInv, TaskType, ConnType, LinkInv, AliveInv, Listening, cfgVars, mainVars
<1> QED BY <1>1, <1>3, ServingStep

\* A step of the connection, by what it leaves in its fields.
LEMMA ConnStep ==
  ASSUME ProcessInv, UNCHANGED <<cfgVars, keyVars, mainVars, taskVars>>, ConnType', LinkInv',
         conn'.at # "misconfigured", conn'.at # "none" => conn.at # "none",
         conn'.port # 0 => role = "exit" /\ conn'.port \in allowed
  PROVE  ProcessInv'
<1>1. ConnInv'
  BY DEF ProcessInv, ConnInv, TaskType, AliveInv, Listening, cfgVars, mainVars, taskVars
<1> QED BY <1>1, ServingStep

\* A connection is closed.
LEMMA CloseStep ==
  ASSUME ProcessInv, UNCHANGED <<cfgVars, keyVars, mainVars, taskVars>>, Close
  PROVE  ProcessInv'
<1>1. ConnType' /\ LinkInv' /\ conn'.at = "none" /\ conn'.port = 0
  BY NoConnType DEF Close, ConnType, LinkInv
<1> QED BY <1>1, ConnStep

\* A connection goes on to another stage.
LEMMA AtStep ==
  ASSUME ProcessInv, UNCHANGED <<cfgVars, keyVars, mainVars, taskVars>>,
         conn.at # "none", conn.link = "none",
         NEW s \in {"proto", "presentation", "start", "msg1", "circuit", "extending"}, At(s)
  PROVE  ProcessInv'
<1>1. ConnType /\ LinkInv /\ AliveInv
  BY DEF ProcessInv, ConnInv
<1>2. s \in Stages /\ 0 \in Ports \cup {0}
  BY DEF Stages
<1>3. ConnType' /\ conn'.at = s /\ conn'.port = conn.port /\ conn'.link = conn.link
      /\ conn'.opened = conn.opened
  BY <1>1, <1>2, SetStage DEF At, ConnType
<1> QED BY <1>1, <1>3, ConnStep DEF LinkInv, AliveInv

\* A circuit that waits for its one link gets it.
LEMMA OpensStep ==
  ASSUME ProcessInv, UNCHANGED <<cfgVars, keyVars, mainVars, taskVars>>,
         conn.at \in {"extending", "dialling"}, NEW k \in {"next", "dest"}, Opens(k)
  PROVE  ProcessInv'
<1>1. ConnType /\ LinkInv /\ AliveInv
  BY DEF ProcessInv, ConnInv
<1>2. conn.opened + 1 = 1 /\ 1 \in Nat /\ k \in Links /\ "circuit" \in Stages
  BY SMT, <1>1 DEF LinkInv, Stages, Links
<1>3. ConnType' /\ conn'.at = "circuit" /\ conn'.port = conn.port /\ conn'.link = k
      /\ conn'.opened = 1
  <2>1. conn' = [conn EXCEPT !.at = "circuit", !.link = k, !.opened = 1] /\ conn \in ConnSet
    BY <1>1, <1>2 DEF Opens, ConnType
  <2> QED BY <1>2, <2>1 DEF ConnType, ConnSet
<1> QED BY <1>1, <1>3, ConnStep DEF LinkInv, AliveInv

\* The destination's end of stream drops the one link.
LEMMA EofStep ==
  ASSUME ProcessInv, UNCHANGED <<cfgVars, keyVars, mainVars, taskVars>>, run_dest_eof
  PROVE  ProcessInv'
<1>1. ConnType /\ LinkInv /\ conn.at = "circuit" /\ conn.link = "dest"
  BY DEF ProcessInv, ConnInv, run_dest_eof
<1>2. conn.opened - 1 = 0 /\ 0 \in Nat /\ "none" \in Links /\ "circuit" \in Stages
  BY SMT, <1>1 DEF LinkInv, Stages, Links
<1>3. ConnType' /\ conn'.at = "circuit" /\ conn'.port = 0 /\ conn'.link = "none"
      /\ conn'.opened = 0
  <2>1. conn' = [conn EXCEPT !.link = "none", !.opened = 0, !.port = 0] /\ conn \in ConnSet
    BY <1>1, <1>2 DEF run_dest_eof, ConnType
  <2> QED BY <1>1, <1>2, <2>1 DEF ConnType, ConnSet
<1> QED BY <1>1, <1>3, ConnStep DEF LinkInv

\* An accept loop that takes a connection keeps the invariant.
LEMMA AcceptStep ==
  ASSUME ProcessInv, UNCHANGED <<cfgVars, keyVars, mainVars>>,
         NEW l \in Loops, NEW s \in {"tls", "serve", "redirect"}, accept(l, s)
  PROVE  ProcessInv'
<1>1. l \in Tasks /\ task[l] # "off" /\ task' = [task EXCEPT ![l] = "waiting"]
  BY DEF accept, Tasks
<1>2. mainAt \in Listening /\ TaskType
  BY <1>1 DEF ProcessInv, ConnInv, AliveInv
<1>3. TaskType'
  BY <1>1, <1>2 DEF TaskType
<1>4. ConnType' /\ LinkInv' /\ conn'.at = s /\ conn'.port = 0
  <2>1. conn' = [NoConn EXCEPT !.at = s]
    BY DEF accept
  <2>2. s \in Stages /\ 0 \in Ports \cup {0} /\ NoConn \in ConnSet
    BY NoConnType DEF Stages
  <2>3. ConnType' /\ conn'.at = s /\ conn'.port = NoConn.port /\ conn'.link = NoConn.link
        /\ conn'.opened = NoConn.opened
    BY <2>1, <2>2, SetStage DEF ConnType
  <2> QED BY <2>3, NoConnType DEF LinkInv
<1>5. mainAt' \in Listening
  BY <1>2 DEF mainVars, Listening
<1>6. ConnInv'
  BY <1>3, <1>4, <1>5 DEF ConnInv, AliveInv
<1> QED BY <1>6, ServingStep

\* A CONNECT cell fails the circuit or dials, and the proxy URL accepted at
\* start-up is one the exit can dial through.
LEMMA ConnectStep ==
  ASSUME ProcessInv, UNCHANGED <<cfgVars, keyVars, mainVars, taskVars>>,
         NEW p \in Ports, run_connect(p)
  PROVE  ProcessInv'
<1>1. CASE role # "exit" \/ conn.link # "none"
  BY <1>1, CloseStep DEF run_connect
<1>2. CASE role = "exit" /\ conn.link = "none"
  <2>1. proxy \in {"socks5", "socks5h"}
    <3>1. mainAt # "down"
      BY DEF ProcessInv, ConnInv, AliveInv, run_connect, Listening
    <3> QED BY <1>2, <3>1, ProcessAssumption DEF ProcessInv, StartInv, from_source
  <2>2. dial_via_socks5(p)
    BY <1>2, <2>1 DEF run_connect
  <2>3. CASE p \notin allowed
    BY <2>2, <2>3, CloseStep DEF dial_via_socks5
  <2>4. CASE p \in allowed
    <3>1. conn' = [conn EXCEPT !.at = "dialling", !.port = p]
      BY <2>1, <2>2, <2>4 DEF dial_via_socks5, ProxyUsable
    <3>2. ConnType /\ LinkInv /\ conn.at = "circuit"
      BY DEF ProcessInv, ConnInv, run_connect
    <3>0. "dialling" \in Stages /\ p \in Ports \cup {0}
      BY DEF Stages
    <3>3. ConnType' /\ conn'.at = "dialling" /\ conn'.port = p /\ conn'.link = conn.link
          /\ conn'.opened = conn.opened
      BY <3>0, <3>1, <3>2 DEF ConnType, ConnSet
    <3> QED BY <1>2, <2>4, <3>2, <3>3, ConnStep DEF LinkInv
  <2> QED BY <2>3, <2>4
<1> QED BY <1>1, <1>2

\* So does a connection that reads, or is dropped for reading too much.
LEMMA ReadStep ==
  ASSUME ProcessInv, UNCHANGED <<cfgVars, keyVars, mainVars, taskVars>>,
         NEW s \in {"serve", "redirect"}, read_request(s)
  PROVE  ProcessInv'
<1>1. CASE Close
  BY <1>1, CloseStep
<1>2. CASE conn' = [conn EXCEPT !.read = @ + 1]
  <2>1. ConnType /\ LinkInv /\ AliveInv /\ conn.at = s
    BY DEF ProcessInv, ConnInv, read_request
  <2>2. ConnType' /\ conn'.at = s /\ conn'.port = conn.port /\ conn'.link = conn.link
        /\ conn'.opened = conn.opened
    BY SMT, <1>2, <2>1 DEF ConnType, ConnSet
  <2> QED BY <2>1, <2>2, ConnStep DEF LinkInv, AliveInv
<1> QED BY <1>1, <1>2 DEF read_request

\* The steps of every connection keep the invariant.
LEMMA ConnectionsStep ==
  ASSUME ProcessInv, Connections
  PROVE  ProcessInv'
<1>1. UNCHANGED <<cfgVars, keyVars, mainVars>>
  BY DEF Connections
<1>2. CASE accept_loop \/ metrics_accept_loop \/ redirect_loop
  BY <1>1, <1>2, AcceptStep DEF accept_loop, metrics_accept_loop, redirect_loop, Loops
<1>3. CASE UNCHANGED taskVars /\ (accept_routed \/ handle_connection \/ handle_client_connection
                                  \/ handle_relay_connection \/ drive_circuit)
  <2>1. conn.at \notin {"none", "circuit"} /\ conn.link = "none"
    BY <1>3 DEF ProcessInv, ConnInv, LinkInv, accept_routed, handle_connection, handle_client_connection,
                handle_relay_connection, drive_circuit
  <2> QED BY <1>1, <1>3, <2>1, AtStep, CloseStep
          DEF accept_routed, handle_connection, handle_client_connection, handle_relay_connection,
              drive_circuit
<1>4. CASE UNCHANGED taskVars /\ (run_extend \/ open_next_link \/ (\E p \in Ports : run_connect(p))
                                  \/ DialReturns \/ run_dest_eof)
  BY <1>1, <1>4, AtStep, CloseStep, OpensStep, ConnectStep, EofStep
  DEF run_extend, open_next_link, DialReturns
<1>5. CASE UNCHANGED taskVars /\ CircuitEnds
  BY <1>1, <1>5, CloseStep DEF CircuitEnds
<1>6. CASE UNCHANGED taskVars /\ (metrics_serve \/ serve_redirect)
  BY <1>1, <1>6, ReadStep DEF metrics_serve, serve_redirect
<1> QED BY <1>2, <1>3, <1>4, <1>5, <1>6 DEF Connections

(***************************************************************************)
(* Theorems.                                                               *)
(***************************************************************************)

\* The inductive invariant, for any number of keygen runs, starts, removals
\* and connections.
THEOREM ProcessInvariant == ProcessSpec => []ProcessInv
<1>1. ProcessInv /\ [ProcessNext]_processVars => ProcessInv'
  <2> SUFFICES ASSUME ProcessInv, [ProcessNext]_processVars PROVE ProcessInv'
    BY SMT
  <2>1. CASE UNCHANGED processVars
    BY <2>1, ServingStep
       DEF processVars, ProcessInv, ConnInv, TaskType, ConnType, LinkInv, AliveInv, Listening, cfgVars, mainVars, taskVars
  <2>2. CASE TimedOut
    BY <2>2, CloseStep DEF TimedOut
  <2> QED BY <2>1, <2>2, KeysStep, MainStep, KillStep, BackgroundStep, ConnectionsStep DEF ProcessNext
<1> QED BY <1>1, ProcessInvInit, PTL DEF ProcessSpec

\* keygen never replaces a key that a run wrote: exclusive create, for any
\* number of runs, write errors, crashes and removals by the operator.
THEOREM KeyKept == ProcessSpec => []WrittenKeyKept
<1>1. ProcessInv => WrittenKeyKept
  BY DEF ProcessInv, KeyFileInv
<1> QED BY <1>1, ProcessInvariant, PTL

\* A relay that listens has its key, the authority's key and a registry, on
\* every way through main.
THEOREM ServesComplete == ProcessSpec => []StartsComplete
<1>1. ProcessInv => StartsComplete
  BY ProcessAssumption DEF ProcessInv, StartInv, StartsComplete, KeyWritten, Keyed, Listening
<1> QED BY <1>1, ProcessInvariant, PTL

\* An exit that runs never finds its proxy URL of no use, and dials allowed
\* ports only, for any configuration.
THEOREM DialsAllowed == ProcessSpec => []ExitDials
<1>1. ProcessInv => ExitDials
  BY DEF ProcessInv, ConnInv, AliveInv, ExitDials
<1> QED BY <1>1, ProcessInvariant, PTL

\* A circuit never has two links, for any cells in any order.
THEOREM LinkIsOne == ProcessSpec => []OneLink
<1>1. ProcessInv => OneLink
  BY SMT DEF ProcessInv, ConnInv, LinkInv, OneLink
<1> QED BY <1>1, ProcessInvariant, PTL
=============================================================================
