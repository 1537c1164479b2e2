---------------------------- MODULE CliRunProofs ----------------------------
(***************************************************************************)
(* The exit status and the output, of failing runs and of complete ones,   *)
(* for any number of items and however long the run lasts.                 *)
(***************************************************************************)
EXTENDS CliRun, SequenceTheorems, FiniteSetTheorems, TLAPS

Scanning == {"roots", "scan", "callback"}
Ending == {"group", "stop", "json", "exit"}
Places == Scanning \cup {"returned", "verify", "look", "ended"} \cup Ending

-----------------------------------------------------------------------------
(* The invariant.                                                          *)

CliTypes ==
  /\ collected \in [Items -> {0, 1}]
  /\ options \in Options
  /\ holds \in [Items -> Contents]
  /\ place \in Places
  /\ item \in Items \cup {None}
  /\ todo \subseteq Items
  /\ finding \in BOOLEAN /\ refused \in BOOLEAN
  /\ outputErr \in BOOLEAN /\ displayErr \in BOOLEAN /\ jsonErr \in BOOLEAN
  /\ exit \in {-1, 0, 1, 3}

\* How far the run has come.
PlaceInv ==
  /\ place # "ended" => exit = -1 /\ ~refused /\ ~jsonErr
  /\ place \in Scanning => status = "running"
  /\ place = "returned" => status \in {"report", "error"}
  /\ place \in {"verify", "look"} \cup Ending => status = "report"
  /\ place \in {"verify", "look"} => options.verify
  /\ IF place = "callback" THEN item \in Items /\ collected[item] = 1
     ELSE item = None
  /\ place \notin {"look", "ended"} => todo = {}
  /\ place = "look" => todo \subseteq Collected(Certificates)

\* Which errors have been noticed.
ErrorsInv ==
  /\ outputErr => options.format = "jsonl"
  /\ place \in {"verify"} \cup Ending => ~outputErr
  /\ place \in {"json", "exit"} => ~displayErr

\* The items whose certificates have been looked at.
Ahead == IF options.verify /\ place \in Scanning \cup {"returned", "verify"} THEN Items
         ELSE IF options.verify THEN todo
         ELSE {item}
Seen == Collected(Certificates) \ Ahead

Expiring(i) ==
  /\ options.failExpiring # Unset
  /\ Matches(holds[i]) /\ ExpiresWithin(holds[i], options.failExpiring)

\* The finding is that of the certificates looked at.
FindingInv ==
  place # "ended" /\ ~outputErr => (finding <=> \E i \in Seen : Expiring(i))

CliInv == CliTypes /\ PlaceInv /\ ErrorsInv /\ FindingInv /\ StatusExact

-----------------------------------------------------------------------------
(* Lemmas.                                                                 *)

\* A write, or none, forgets no failure and makes one to stdout for JSON Lines only.
LEMMA EmitFacts ==
  ASSUME outputErr \in BOOLEAN, displayErr \in BOOLEAN, NEW i, Emit(i) \/ NoEmit
  PROVE  /\ outputErr' \in BOOLEAN /\ displayErr' \in BOOLEAN
         /\ outputErr => outputErr'
         /\ outputErr' => outputErr \/ options.format = "jsonl"
         /\ displayErr => displayErr'
<1>1. CASE UNCHANGED <<displayErr, outputErr>>
  BY <1>1
<1>2. CASE displayErr' = TRUE /\ outputErr' = outputErr
  BY <1>2
<1>3. CASE options.format = "jsonl" /\ outputErr' = TRUE /\ displayErr' = displayErr
  BY <1>3
<1> QED
  BY <1>1, <1>2, <1>3 DEF Emit, NoEmit

\* The finding takes in the certificate that is looked at.
LEMMA LookAtFacts ==
  ASSUME CliTypes, NEW i \in Items, LookAt(i)
  PROVE  /\ Emit(i) \/ NoEmit
         /\ finding' \in BOOLEAN
         /\ finding' <=> finding \/ Expiring(i)
<1>1. CASE Matches(holds[i])
  <2>1. finding' = (finding \/ (options.failExpiring # Unset /\
                                  ExpiresWithin(holds[i], options.failExpiring)))
    BY <1>1 DEF LookAt
  <2>2. Emit(i) \/ NoEmit
    BY <1>1 DEF LookAt
  <2> QED
    BY <1>1, <2>1, <2>2, Zenon DEF Expiring
<1>2. CASE ~Matches(holds[i])
  <2>1. NoEmit /\ finding' = finding
    BY <1>2 DEF LookAt
  <2> QED
    BY <1>2, <2>1, Zenon DEF Expiring, CliTypes
<1> QED
  BY <1>1, <1>2

\* Certificates are selected by what Scan has delivered, options and contents.
LEMMA SelectionStays ==
  ASSUME UNCHANGED <<collected, options, holds>>
  PROVE  /\ \A contents : Collected(contents)' = Collected(contents)
         /\ \A i : Expiring(i)' <=> Expiring(i)
         /\ Selected' = Selected
<1>1. \A contents : Collected(contents)' = Collected(contents)
  BY DEF Collected
<1>2. \A i : Expiring(i)' <=> Expiring(i)
  BY DEF Expiring, Matches, ExpiresWithin
<1>3. Selected' = Selected
  BY <1>1 DEF Selected
<1> QED
  BY <1>1, <1>2, <1>3

\* What the finding is of all certificates is what StatusExact says of it.
LEMMA FoundIsSelected ==
  ASSUME CliTypes
  PROVE  (\E i \in Collected(Certificates) : Expiring(i))
           <=> /\ options.failExpiring # Unset
               /\ \E i \in Selected : NotAfter[holds[i]] <= options.failExpiring
<1>1. options.expiration \in {Unset, 0}
  BY DEF CliTypes, Options
<1>2. \A c : Matches(c) <=> c # "issuer" /\ (options.expiration = 0 => NotAfter[c] <= 0)
  BY <1>1 DEF Matches, ExpiresWithin, Unset
<1>3. \A i : i \in Selected <=> i \in Collected(Certificates) /\ Matches(holds[i])
  BY <1>2 DEF Selected, Collected
<1> QED
  BY <1>3 DEF Expiring, ExpiresWithin, Selected, Collected

\* The invariant holds when run() has read its options.
LEMMA InitCli == CliInit => CliInv
<1> SUFFICES ASSUME CliInit PROVE CliInv
  OBVIOUS
<1>1. CliTypes
  BY DEF CliInit, ContractInit, CliTypes, Places, Scanning
<1>2. PlaceInv /\ ErrorsInv
  BY DEF CliInit, ContractInit, PlaceInv, ErrorsInv, Scanning, Ending
<1>3. Seen = {}
  BY DEF CliInit, ContractInit, Seen, Collected
<1>4. FindingInv /\ StatusExact
  BY <1>3 DEF CliInit, FindingInv, StatusExact
<1> QED
  BY <1>1, <1>2, <1>4 DEF CliInv

\* A step before the end that leaves open what it has not come to, and looks at
\* no certificate.
LEMMA QuietStepInv ==
  ASSUME CliInv, CliTypes', PlaceInv', ErrorsInv', place # "ended",
         UNCHANGED <<options, holds>>,
         place' # "ended" /\ ~outputErr' => Seen' = Seen /\ finding' = finding,
         ~outputErr' => ~outputErr,
         place' = "ended" =>
           exit' = 1 /\ (refused' \/ status' = "error" \/ WriteFailed')
  PROVE  CliInv'
<1>1. FindingInv'
  <2> SUFFICES ASSUME place' # "ended", ~outputErr'
               PROVE  finding' <=> \E i \in Seen' : Expiring(i)'
    BY DEF FindingInv
  <2>1. finding <=> \E i \in Seen : Expiring(i)
    BY DEF CliInv, FindingInv
  <2>2. \A i : Expiring(i)' <=> Expiring(i)
    BY DEF Expiring, Matches, ExpiresWithin
  <2>3. Seen' = Seen /\ finding' = finding
    OBVIOUS
  <2> QED
    BY <2>1, <2>2, <2>3, Zenon
<1>2. StatusExact'
  BY DEF StatusExact, PlaceInv
<1> QED
  BY <1>1, <1>2 DEF CliInv

\* The steps that look at no certificate, before the group of Exit.
LEMMA QuietSteps ==
  ASSUME CliInv,
         \/ LoadRoots \/ TakeOutcome \/ OnPKCS12Encrypted \/ NoCallback
         \/ Tick \/ ProgressFails \/ ScanReturns \/ CheckScan
         \/ VerifyCertificates \/ EndVerified \/ PrintGroups \/ Stop \/ PrintJSON
  PROVE  CliInv'
<1>1. CliTypes /\ PlaceInv /\ ErrorsInv /\ None \notin Items
  BY CliAssumption DEF CliInv
<1>2. CASE LoadRoots
  <2>1. /\ place = "roots"
        /\ UNCHANGED <<scanVars, item, todo, verdict, identityCounts, finding,
                       written, groups, outputErr, displayErr, jsonErr, summary>>
        /\ \/ place' = "scan" /\ UNCHANGED <<refused, exit>>
           \/ refused' = TRUE /\ exit' = 1 /\ place' = "ended"
    BY <1>2 DEF LoadRoots, Leave
  <2>2. /\ UNCHANGED <<collected, status, options, holds, item, todo, finding>>
        /\ UNCHANGED <<outputErr, displayErr, jsonErr>>
    BY <2>1 DEF scanVars, contractVars, inputVars
  <2>3. CliTypes'
    BY <1>1, <2>1, <2>2 DEF CliTypes, Places, Scanning
  <2>4. PlaceInv' /\ ErrorsInv'
    BY <1>1, <2>1, <2>2 DEF PlaceInv, ErrorsInv, Scanning, Ending
  <2>5. place' # "ended" => Seen' = Seen
    BY <2>1, <2>2, SelectionStays DEF Seen, Ahead, Scanning
  <2> QED
    BY <2>1, <2>2, <2>3, <2>4, <2>5, QuietStepInv
<1>3. CASE OnPKCS12Encrypted
  <2>1. /\ place = "callback" /\ holds[item] = "encrypted" /\ place' = "scan"
        /\ item' = None
        /\ Emit(item) \/ NoEmit
    BY <1>3 DEF OnPKCS12Encrypted
  <2>2. UNCHANGED <<collected, status, options, holds, todo, finding, jsonErr, refused, exit>>
    BY <1>3 DEF OnPKCS12Encrypted, inputVars
  <2>3. /\ outputErr' \in BOOLEAN /\ displayErr' \in BOOLEAN
        /\ outputErr => outputErr'
        /\ outputErr' => outputErr \/ options.format = "jsonl"
    BY <1>1, <2>1, EmitFacts DEF CliTypes
  <2>4. CliTypes'
    BY <1>1, <2>1, <2>2, <2>3 DEF CliTypes, Places, Scanning
  <2>5. PlaceInv' /\ ErrorsInv'
    BY <1>1, <2>1, <2>2, <2>3 DEF PlaceInv, ErrorsInv, Scanning, Ending
  <2>6. Seen' = Seen
    <3>1. /\ item \notin Collected(Certificates) /\ None \notin Collected(Certificates)
          /\ Collected(Certificates) \subseteq Items
          /\ Collected(Certificates)' = Collected(Certificates)
      BY <1>1, <2>1, <2>2, SelectionStays DEF Collected, Certificates
    <3> QED
      BY <2>1, <2>2, <3>1 DEF Seen, Ahead, Scanning
  <2> QED
    BY <2>1, <2>2, <2>3, <2>4, <2>5, <2>6, QuietStepInv
<1>4. CASE NoCallback
  <2>1. /\ place = "callback" /\ holds[item] = "error" /\ place' = "scan"
        /\ item' = None
    BY <1>4 DEF NoCallback
  <2>2. UNCHANGED <<collected, status, options, holds, todo, finding, outputErr, displayErr, jsonErr, refused, exit>>
    BY <1>4 DEF NoCallback, scanVars, contractVars, inputVars
  <2>4. CliTypes'
    BY <1>1, <2>1, <2>2 DEF CliTypes, Places, Scanning
  <2>5. PlaceInv' /\ ErrorsInv'
    BY <1>1, <2>1, <2>2 DEF PlaceInv, ErrorsInv, Scanning, Ending
  <2>6. Seen' = Seen
    <3>1. /\ item \notin Collected(Certificates) /\ None \notin Collected(Certificates)
          /\ Collected(Certificates) \subseteq Items
          /\ Collected(Certificates)' = Collected(Certificates)
      BY <1>1, <2>1, <2>2, SelectionStays DEF Collected, Certificates
    <3> QED
      BY <2>1, <2>2, <3>1 DEF Seen, Ahead, Scanning
  <2> QED
    BY <2>1, <2>2, <2>4, <2>5, <2>6, QuietStepInv
<1>5. CASE Tick
  <2>1. place # "ended" /\ place' = place
    BY <1>5 DEF Tick, Leave, DeliverReport, DeliverError
  <2>2. UNCHANGED <<collected, status, options, holds, item, todo, finding, outputErr, displayErr, jsonErr, refused, exit>>
    BY <1>5 DEF Tick, scanVars, contractVars, inputVars, Leave, DeliverReport, DeliverError, NoEmit
  <2>3. CliTypes'
    BY <1>1, <2>1, <2>2 DEF CliTypes, Places, Scanning, Ending, PlaceInv
  <2>4. PlaceInv' /\ ErrorsInv'
    BY <1>1, <2>1, <2>2, SelectionStays DEF PlaceInv, ErrorsInv, Scanning, Ending, CliTypes
  <2>5. place' # "ended" => Seen' = Seen
    BY <1>1, <2>1, <2>2, SelectionStays DEF Seen, Ahead, Scanning, Ending, PlaceInv
  <2> QED
    BY <2>1, <2>2, <2>3, <2>4, <2>5, QuietStepInv DEF WriteFailed
<1>6. CASE ProgressFails
  <2>1. /\ place \notin {"json", "exit", "ended"} /\ place' = place
        /\ displayErr' = TRUE
    BY <1>6 DEF ProgressFails, Leave, DeliverReport, DeliverError
  <2>2. UNCHANGED <<collected, status, options, holds, item, todo, finding, outputErr, jsonErr, refused, exit>>
    BY <1>6 DEF ProgressFails, scanVars, contractVars, inputVars, Leave, DeliverReport, DeliverError, NoEmit
  <2>3. CliTypes'
    BY <1>1, <2>1, <2>2 DEF CliTypes, Places, Scanning, Ending, PlaceInv
  <2>4. PlaceInv' /\ ErrorsInv'
    BY <1>1, <2>1, <2>2, SelectionStays DEF PlaceInv, ErrorsInv, Scanning, Ending, CliTypes
  <2>5. place' # "ended" => Seen' = Seen
    BY <1>1, <2>1, <2>2, SelectionStays DEF Seen, Ahead, Scanning, Ending, PlaceInv
  <2> QED
    BY <2>1, <2>2, <2>3, <2>4, <2>5, QuietStepInv DEF WriteFailed
<1>7. CASE ScanReturns
  <2>1. /\ place = "scan" /\ place' = "returned"
        /\ status' \in {"report", "error"}
    BY <1>7 DEF ScanReturns, Leave, DeliverReport, DeliverError
  <2>2. UNCHANGED <<collected, options, holds, item, todo, finding, outputErr, displayErr, jsonErr, refused, exit>>
    BY <1>7 DEF ScanReturns, scanVars, contractVars, inputVars, Leave, DeliverReport, DeliverError, NoEmit
  <2>3. CliTypes'
    BY <1>1, <2>1, <2>2 DEF CliTypes, Places, Scanning, Ending, PlaceInv
  <2>4. PlaceInv' /\ ErrorsInv'
    BY <1>1, <2>1, <2>2 DEF PlaceInv, ErrorsInv, Scanning, Ending, CliTypes
  <2>5. place' # "ended" => Seen' = Seen
    BY <1>1, <2>1, <2>2, SelectionStays DEF Seen, Ahead, Scanning, Ending, PlaceInv
  <2> QED
    BY <2>1, <2>2, <2>3, <2>4, <2>5, QuietStepInv DEF WriteFailed
<1>8. CASE CheckScan
  <2>1. /\ place = "returned"
        /\ IF outputErr \/ status = "error" THEN exit' = 1 /\ place' = "ended"
           ELSE /\ place' = IF options.verify THEN "verify" ELSE "group"
                /\ exit' = exit
    BY <1>8 DEF CheckScan, Leave, DeliverReport, DeliverError
  <2>2. UNCHANGED <<collected, status, options, holds, item, todo, finding, outputErr, displayErr, jsonErr, refused>>
    BY <1>8 DEF CheckScan, scanVars, contractVars, inputVars, Leave, DeliverReport, DeliverError, NoEmit
  <2>3. CliTypes'
    BY <1>1, <2>1, <2>2 DEF CliTypes, Places, Scanning, Ending, PlaceInv
  <2>4. PlaceInv' /\ ErrorsInv'
    BY <1>1, <2>1, <2>2 DEF PlaceInv, ErrorsInv, Scanning, Ending, CliTypes
  <2>5. place' # "ended" => Seen' = Seen
    BY <1>1, <2>1, <2>2, SelectionStays DEF Seen, Ahead, Scanning, Ending, PlaceInv
  <2> QED
    BY <2>1, <2>2, <2>3, <2>4, <2>5, QuietStepInv DEF WriteFailed
<1>9. CASE EndVerified
  <2>1. /\ place = "look" /\ (todo = {} \/ outputErr)
        /\ IF outputErr THEN exit' = 1 /\ place' = "ended"
           ELSE place' = "group" /\ exit' = exit
    BY <1>9 DEF EndVerified, Leave, DeliverReport, DeliverError
  <2>2. UNCHANGED <<collected, status, options, holds, item, todo, finding, outputErr, displayErr, jsonErr, refused>>
    BY <1>9 DEF EndVerified, scanVars, contractVars, inputVars, Leave, DeliverReport, DeliverError, NoEmit
  <2>3. CliTypes'
    BY <1>1, <2>1, <2>2 DEF CliTypes, Places, Scanning, Ending, PlaceInv
  <2>4. PlaceInv' /\ ErrorsInv'
    BY <1>1, <2>1, <2>2 DEF PlaceInv, ErrorsInv, Scanning, Ending, CliTypes
  <2>5. place' # "ended" => Seen' = Seen
    BY <1>1, <2>1, <2>2, SelectionStays DEF Seen, Ahead, Scanning, Ending, PlaceInv
  <2> QED
    BY <2>1, <2>2, <2>3, <2>4, <2>5, QuietStepInv DEF WriteFailed
<1>10. CASE PrintGroups
  <2>1. /\ place = "group" /\ place' = "stop"
        /\ displayErr' = displayErr \/ displayErr' = TRUE
    BY <1>10 DEF PrintGroups, Leave, DeliverReport, DeliverError
  <2>2. UNCHANGED <<collected, status, options, holds, item, todo, finding, outputErr, jsonErr, refused, exit>>
    BY <1>10 DEF PrintGroups, scanVars, contractVars, inputVars, Leave, DeliverReport, DeliverError, NoEmit
  <2>3. CliTypes'
    BY <1>1, <2>1, <2>2 DEF CliTypes, Places, Scanning, Ending, PlaceInv
  <2>4. PlaceInv' /\ ErrorsInv'
    BY <1>1, <2>1, <2>2 DEF PlaceInv, ErrorsInv, Scanning, Ending, CliTypes
  <2>5. place' # "ended" => Seen' = Seen
    BY <1>1, <2>1, <2>2, SelectionStays DEF Seen, Ahead, Scanning, Ending, PlaceInv
  <2> QED
    BY <2>1, <2>2, <2>3, <2>4, <2>5, QuietStepInv DEF WriteFailed
<1>11. CASE Stop
  <2>1. /\ place = "stop"
        /\ IF displayErr THEN exit' = 1 /\ place' = "ended"
           ELSE place' = "json" /\ exit' = exit
    BY <1>11 DEF Stop, Leave, DeliverReport, DeliverError
  <2>2. UNCHANGED <<collected, status, options, holds, item, todo, finding, outputErr, displayErr, jsonErr, refused>>
    BY <1>11 DEF Stop, scanVars, contractVars, inputVars, Leave, DeliverReport, DeliverError, NoEmit
  <2>3. CliTypes'
    BY <1>1, <2>1, <2>2 DEF CliTypes, Places, Scanning, Ending, PlaceInv
  <2>4. PlaceInv' /\ ErrorsInv'
    BY <1>1, <2>1, <2>2 DEF PlaceInv, ErrorsInv, Scanning, Ending, CliTypes
  <2>5. place' # "ended" => Seen' = Seen
    BY <1>1, <2>1, <2>2, SelectionStays DEF Seen, Ahead, Scanning, Ending, PlaceInv
  <2> QED
    BY <2>1, <2>2, <2>3, <2>4, <2>5, QuietStepInv DEF WriteFailed
<1>12. CASE PrintJSON
  <2>1. /\ place = "json"
        /\ \/ place' = "exit" /\ UNCHANGED <<jsonErr, exit>>
           \/ jsonErr' = TRUE /\ exit' = 1 /\ place' = "ended"
    BY <1>12 DEF PrintJSON, Leave, DeliverReport, DeliverError
  <2>2. UNCHANGED <<collected, status, options, holds, item, todo, finding, outputErr, displayErr, refused>>
    BY <1>12 DEF PrintJSON, scanVars, contractVars, inputVars, Leave, DeliverReport, DeliverError, NoEmit
  <2>3. CliTypes'
    BY <1>1, <2>1, <2>2 DEF CliTypes, Places, Scanning, Ending, PlaceInv
  <2>4. PlaceInv' /\ ErrorsInv'
    BY <1>1, <2>1, <2>2 DEF PlaceInv, ErrorsInv, Scanning, Ending, CliTypes
  <2>5. place' # "ended" => Seen' = Seen
    BY <1>1, <2>1, <2>2, SelectionStays DEF Seen, Ahead, Scanning, Ending, PlaceInv
  <2> QED
    BY <2>1, <2>2, <2>3, <2>4, <2>5, QuietStepInv DEF WriteFailed
<1>13. CASE VerifyCertificates
  <2>1. /\ place = "verify"
        /\ \/ todo' = Kept /\ place' = "look" /\ UNCHANGED <<refused, exit>>
           \/ refused' = TRUE /\ exit' = 1 /\ place' = "ended" /\ todo' = todo
    BY <1>13 DEF VerifyCertificates, Leave
  <2>2. UNCHANGED <<collected, status, options, holds, item, finding, outputErr, displayErr, jsonErr>>
    BY <1>13 DEF VerifyCertificates, scanVars, contractVars, inputVars
  <2>3. options.verify
    BY <1>1, <2>1 DEF PlaceInv
  <2>4. Kept = Collected(Certificates) /\ Kept \subseteq Items
    BY <2>3 DEF Kept, Collected
  <2>5. CliTypes'
    BY <1>1, <2>1, <2>2, <2>4 DEF CliTypes, Places
  <2>6. PlaceInv' /\ ErrorsInv'
    BY <1>1, <2>1, <2>2, <2>4, SelectionStays DEF PlaceInv, ErrorsInv, Scanning, Ending
  <2>7. place' # "ended" => Seen' = Seen
    BY <2>1, <2>2, <2>3, <2>4, SelectionStays DEF Seen, Ahead, Scanning
  <2> QED
    BY <2>1, <2>2, <2>5, <2>6, <2>7, QuietStepInv
<1>14. CASE TakeOutcome
  <2>1. PICK i \in Items : Deliver(i) /\ item' = i
    BY <1>14 DEF TakeOutcome
  <2>2. /\ place = "scan" /\ place' = "callback" /\ item' = i /\ collected[i] = 0
        /\ collected' = [collected EXCEPT ![i] = 1]
    BY <1>14, <2>1 DEF TakeOutcome, Deliver
  <2>3. UNCHANGED <<status, options, holds, todo, finding, outputErr, displayErr, jsonErr, refused, exit>>
    BY <1>14, <2>1 DEF TakeOutcome, Deliver, inputVars
  <2>4. CliTypes'
    BY <1>1, <2>2, <2>3 DEF CliTypes, Places, Scanning
  <2>5. PlaceInv' /\ ErrorsInv'
    BY <1>1, <2>2, <2>3 DEF PlaceInv, ErrorsInv, Scanning, Ending, CliTypes
  <2>6. Seen' = Seen
    <3>1. /\ Collected(Certificates)' \ {i} = Collected(Certificates)
          /\ None \notin Collected(Certificates)
      BY <1>1, <2>2, <2>3 DEF Collected, CliTypes
    <3>2. CASE options.verify
      BY <2>2, <2>3, <3>2 DEF Seen, Ahead, Scanning, Collected
    <3>3. CASE ~options.verify
      BY <1>1, <2>2, <2>3, <3>1, <3>3 DEF Seen, Ahead, PlaceInv
    <3> QED
      BY <3>2, <3>3
  <2> QED
    BY <2>2, <2>3, <2>4, <2>5, <2>6, QuietStepInv
<1> QED
  BY <1>2, <1>3, <1>4, <1>5, <1>6, <1>7, <1>8, <1>9, <1>10, <1>11, <1>12, <1>13, <1>14

\* A step that looks at one more certificate.
LEMMA LookStepInv ==
  ASSUME CliInv, CliTypes', PlaceInv', ErrorsInv', place' # "ended", ~outputErr,
         place # "ended", UNCHANGED <<options, holds>>,
         NEW i \in Items, LookAt(i), Seen' = Seen \cup {i}
  PROVE  CliInv'
<1>1. finding' <=> \E j \in Seen' : Expiring(j)'
  <2>1. finding <=> \E j \in Seen : Expiring(j)
    BY DEF CliInv, FindingInv
  <2>2. \A j : Expiring(j)' <=> Expiring(j)
    BY DEF Expiring, Matches, ExpiresWithin
  <2>3. finding' <=> finding \/ Expiring(i)
    BY LookAtFacts DEF CliInv
  <2> QED
    BY <2>1, <2>2, <2>3, Zenon
<1> QED
  BY <1>1 DEF CliInv, FindingInv, StatusExact, PlaceInv

\* A callback, with -verify and without.
LEMMA OnCertificateInv == CliInv /\ OnCertificate => CliInv'
<1> SUFFICES ASSUME CliInv, OnCertificate PROVE CliInv'
  OBVIOUS
<1>1. /\ CliTypes /\ PlaceInv /\ ErrorsInv /\ None \notin Items
      /\ place = "callback" /\ holds[item] \in Certificates
      /\ place' = "scan" /\ item' = None
      /\ UNCHANGED <<collected, status, options, holds, todo, jsonErr, refused, exit>>
  BY CliAssumption DEF CliInv, OnCertificate, inputVars
<1>2. item \in Items /\ collected[item] = 1
  BY <1>1 DEF PlaceInv
<1>3. /\ Collected(Certificates)' = Collected(Certificates)
      /\ item \in Collected(Certificates) /\ Collected(Certificates) \subseteq Items
  BY <1>1, <1>2, SelectionStays DEF Collected
<1>4. CASE options.verify \/ outputErr
  <2>1. UNCHANGED <<outputErr, displayErr, finding>>
    BY <1>4 DEF OnCertificate, NoEmit
  <2>2. CliTypes'
    BY <1>1, <2>1 DEF CliTypes, Places, Scanning
  <2>3. PlaceInv' /\ ErrorsInv'
    BY <1>1, <2>1 DEF PlaceInv, ErrorsInv, Scanning, Ending
  <2>4. ~outputErr' => Seen' = Seen
    BY <1>1, <1>3, <1>4, <2>1 DEF Seen, Ahead, Scanning
  <2> QED
    BY <1>1, <2>1, <2>2, <2>3, <2>4, QuietStepInv
<1>5. CASE ~options.verify /\ ~outputErr
  <2>1. LookAt(item)
    BY <1>5 DEF OnCertificate
  <2>2. /\ finding' \in BOOLEAN /\ outputErr' \in BOOLEAN /\ displayErr' \in BOOLEAN
        /\ outputErr' => outputErr \/ options.format = "jsonl"
    BY <1>1, <1>2, <2>1, LookAtFacts, EmitFacts DEF CliTypes
  <2>3. CliTypes'
    BY <1>1, <2>2 DEF CliTypes, Places, Scanning
  <2>4. PlaceInv' /\ ErrorsInv'
    BY <1>1, <1>5, <2>2 DEF PlaceInv, ErrorsInv, Scanning, Ending
  <2>5. Seen' = Seen \cup {item}
    BY <1>1, <1>3, <1>5 DEF Seen, Ahead
  <2> QED
    BY <1>1, <1>2, <1>5, <2>1, <2>3, <2>4, <2>5, LookStepInv
<1> QED
  BY <1>4, <1>5

\* The loop over the verified certificates.
LEMMA LookAtVerifiedInv == CliInv /\ LookAtVerified => CliInv'
<1> SUFFICES ASSUME CliInv, LookAtVerified PROVE CliInv'
  OBVIOUS
<1>1. PICK i \in todo : LookAt(i) /\ todo' = todo \ {i}
  BY DEF LookAtVerified
<1>2. /\ CliTypes /\ PlaceInv /\ ErrorsInv
      /\ place = "look" /\ ~outputErr /\ place' = place
      /\ UNCHANGED <<collected, status, options, holds, item, jsonErr, refused, exit>>
  BY DEF CliInv, LookAtVerified, scanVars, contractVars, inputVars
<1>3. /\ i \in Items /\ options.verify
      /\ todo \subseteq Collected(Certificates)
      /\ Collected(Certificates)' = Collected(Certificates)
  BY <1>2, SelectionStays DEF CliTypes, PlaceInv
<1>4. /\ finding' \in BOOLEAN /\ outputErr' \in BOOLEAN /\ displayErr' \in BOOLEAN
      /\ outputErr' => outputErr \/ options.format = "jsonl"
  BY <1>1, <1>2, <1>3, LookAtFacts, EmitFacts DEF CliTypes
<1>5. CliTypes'
  BY <1>1, <1>2, <1>4 DEF CliTypes
<1>6. PlaceInv' /\ ErrorsInv'
  BY <1>1, <1>2, <1>3, <1>4 DEF PlaceInv, ErrorsInv, Scanning, Ending
<1>7. Seen' = Seen \cup {i}
  BY <1>1, <1>2, <1>3 DEF Seen, Ahead, Scanning
<1> QED
  BY <1>1, <1>2, <1>3, <1>5, <1>6, <1>7, LookStepInv

\* A signal, at any moment.
LEMMA InterruptInv == CliInv /\ Interrupt => CliInv'
<1> SUFFICES ASSUME CliInv, Interrupt PROVE CliInv'
  OBVIOUS
<1>1. /\ CliTypes /\ PlaceInv /\ ErrorsInv
      /\ UNCHANGED <<collected, status, options, holds, place, item, todo, finding>>
      /\ UNCHANGED <<outputErr, displayErr, jsonErr, refused, exit>>
  BY DEF CliInv, Interrupt, CancelScan, inputVars
<1>2. /\ \A contents : Collected(contents)' = Collected(contents)
      /\ \A i : Expiring(i)' <=> Expiring(i)
      /\ Selected' = Selected
  BY <1>1, SelectionStays
<1>3. CliTypes'
  BY <1>1 DEF CliTypes
<1>4. PlaceInv' /\ ErrorsInv'
  BY <1>1, <1>2 DEF PlaceInv, ErrorsInv
<1>5. FindingInv'
  <2>1. Seen' = Seen
    BY <1>1, <1>2 DEF Seen, Ahead
  <2> QED
    BY <1>1, <1>2, <2>1, Zenon DEF CliInv, FindingInv
<1>6. StatusExact'
  BY <1>1, <1>2 DEF CliInv, StatusExact, WriteFailed
<1> QED
  BY <1>3, <1>4, <1>5, <1>6 DEF CliInv

\* The exit status of a run that has come to its end.
LEMMA ExitInv == CliInv /\ Exit => CliInv'
<1> SUFFICES ASSUME CliInv, Exit PROVE CliInv'
  OBVIOUS
<1>1. /\ CliTypes /\ PlaceInv /\ ErrorsInv
      /\ place = "exit" /\ place' = "ended"
      /\ exit' = IF Collected({"error"}) # {} /\ ~options.ignoreErrors THEN 1
                 ELSE IF finding THEN 3 ELSE 0
  BY DEF CliInv, Exit, Leave
<1>2. /\ UNCHANGED <<collected, status, options, holds, item, todo, finding>>
      /\ UNCHANGED <<outputErr, displayErr, jsonErr, refused>>
  BY DEF Exit, scanVars, contractVars, inputVars
<1>3. CliTypes'
  BY <1>1, <1>2 DEF CliTypes, Places
<1>4. PlaceInv' /\ ErrorsInv' /\ FindingInv'
  BY <1>1, <1>2 DEF PlaceInv, ErrorsInv, FindingInv, Scanning, Ending
<1>5. ~refused /\ status = "report" /\ ~WriteFailed
  BY <1>1 DEF PlaceInv, ErrorsInv, Ending, WriteFailed
<1>6. finding <=> \E i \in Collected(Certificates) : Expiring(i)
  <2>1. Seen = Collected(Certificates)
    <3>1. item = None /\ todo = {} /\ None \notin Items
      BY <1>1, CliAssumption DEF PlaceInv
    <3> QED
      BY <1>1, <3>1 DEF Seen, Ahead, Scanning, Collected
  <2>2. ~outputErr
    BY <1>5 DEF WriteFailed
  <2> QED
    BY <1>1, <2>1, <2>2 DEF CliInv, FindingInv
<1>7. finding <=> /\ options.failExpiring # Unset
                  /\ \E i \in Selected : NotAfter[holds[i]] <= options.failExpiring
  BY <1>1, <1>6, FoundIsSelected
<1>8. StatusExact'
  <2>1. /\ \A contents : Collected(contents)' = Collected(contents)
        /\ Selected' = Selected
    BY <1>2, SelectionStays
  <2>2. ~refused' /\ status' = "report" /\ ~WriteFailed'
    BY <1>2, <1>5 DEF WriteFailed
  <2> QED
    BY <1>1, <1>2, <1>7, <2>1, <2>2 DEF StatusExact
<1> QED
  BY <1>3, <1>4, <1>8 DEF CliInv

\* Every step keeps the invariant.
LEMMA CliStepInv == CliInv /\ [CliNext]_cliVars => CliInv'
<1> SUFFICES ASSUME CliInv, [CliNext]_cliVars PROVE CliInv'
  OBVIOUS
<1>1. CASE UNCHANGED cliVars
  <2>1. /\ UNCHANGED <<collected, status, options, holds, place, item, todo, finding>>
        /\ UNCHANGED <<outputErr, displayErr, jsonErr, refused, exit>>
    BY <1>1 DEF cliVars, contractVars
  <2>2. CliTypes' /\ ErrorsInv'
    BY <2>1 DEF CliInv, CliTypes, ErrorsInv
  <2>3. /\ \A contents : Collected(contents)' = Collected(contents)
        /\ \A i : Expiring(i)' <=> Expiring(i)
        /\ Selected' = Selected
    BY <2>1, SelectionStays
  <2>4. PlaceInv'
    BY <2>1, <2>3 DEF CliInv, PlaceInv
  <2>5. FindingInv'
    <3>1. Seen' = Seen
      BY <2>1, <2>3 DEF Seen, Ahead
    <3> QED
      BY <2>1, <2>3, <3>1, Zenon DEF CliInv, FindingInv
  <2>6. StatusExact'
    BY <2>1, <2>3 DEF CliInv, StatusExact, WriteFailed
  <2> QED
    BY <2>2, <2>4, <2>5, <2>6 DEF CliInv
<1> QED
  BY <1>1, QuietSteps, OnCertificateInv, LookAtVerifiedInv, InterruptInv, ExitInv
  DEF CliNext

-----------------------------------------------------------------------------
(* The theorems.                                                           *)

\* The invariant holds from the options to the exit status.
THEOREM CliInvariance == CliSpec => []CliInv
BY InitCli, CliStepInv, PTL DEF CliSpec

\* run() and operationalExit give the status the README promises, whatever fails
\* first, and the finding of the run's beginning however long the run lasts.
THEOREM StatusCorrect == CliSpec => []StatusExact
<1>1. CliInv => StatusExact
  BY DEF CliInv
<1> QED
  BY <1>1, CliInvariance, PTL

\* Nothing is written to stdout behind a failed write.
THEOREM NothingAfterFailure == CliSpec => NoOutputAfterFailure
<1>1. CliInv /\ [CliNext]_cliVars =>
        [outputErr \/ (displayErr /\ options.format # "jsonl") =>
           UNCHANGED <<written, groups>>]_cliVars
  <2> SUFFICES ASSUME CliInv, CliNext,
                      outputErr \/ (displayErr /\ options.format # "jsonl")
               PROVE  UNCHANGED <<written, groups>>
    OBVIOUS
  <2>1. /\ outputErr => options.format = "jsonl"
        /\ place \in Ending => ~outputErr
        /\ place \in {"json", "exit"} => ~displayErr
    BY DEF CliInv, ErrorsInv
  <2>2. ASSUME NEW i, Emit(i), ~outputErr PROVE written' = written
    BY <2>1, <2>2 DEF Emit
  <2>3. ASSUME NEW i, LookAt(i), ~outputErr PROVE written' = written
    BY <2>2, <2>3 DEF LookAt, NoEmit
  <2>4. CASE OnCertificate
    BY <2>3, <2>4 DEF OnCertificate, NoEmit
  <2>5. CASE OnPKCS12Encrypted
    BY <2>2, <2>5 DEF OnPKCS12Encrypted, NoEmit
  <2>6. CASE LookAtVerified
    BY <2>3, <2>6 DEF LookAtVerified
  <2>7. CASE PrintGroups \/ PrintJSON
    BY <2>1, <2>7 DEF PrintGroups, PrintJSON, Ending
  <2>8. CASE LoadRoots \/ TakeOutcome \/ NoCallback \/ Interrupt \/ Tick
    BY <2>8 DEF LoadRoots, TakeOutcome, NoCallback, Interrupt, Tick
  <2>9. CASE ProgressFails \/ ScanReturns \/ CheckScan \/ VerifyCertificates
    BY <2>9 DEF ProgressFails, ScanReturns, CheckScan, VerifyCertificates
  <2>10. CASE EndVerified \/ Stop \/ Exit \/ UNCHANGED cliVars
    BY <2>10 DEF EndVerified, Stop, Exit, cliVars
  <2> QED
    BY <2>4, <2>5, <2>6, <2>7, <2>8, <2>9, <2>10 DEF CliNext
<1> QED
  BY <1>1, CliInvariance, PTL DEF CliSpec, NoOutputAfterFailure

-----------------------------------------------------------------------------
(* The invariant of the output.                                            *)

Statuses == {"none", "trusted", "expired", "missing-intermediate"}
Lines == [validity : {"valid", "expired", "encrypted"}, verification : Statuses]

\* Before certificates are verified, after, and once the certificates are printed.
Early == Scanning \cup {"returned", "verify"}
Verified == {"look"} \cup Ending
Printed == {"stop", "json", "exit"}

OutTypes ==
  /\ clock \in Nat
  /\ verdict \in [Items -> Statuses]
  /\ identityCounts \in [Certificates -> Nat]
  /\ written \in [Items -> Seq(Lines)]

\* What -verify makes of a certificate, once everything has been collected.
Verdict(i) ==
  IF options.verify
    THEN VerificationStatus(holds[i],
           ChainError(holds[i], Intermediates(Collected(Certificates))))
    ELSE "none"

VerdictInv ==
  /\ ~options.verify => \A i \in Items : verdict[i] = "none"
  /\ options.verify /\ place \in Verified =>
       \A i \in Collected(Certificates) : verdict[i] = Verdict(i)

\* With -verify no certificate is printed before all have been collected; a line
\* that is printed is right at its time.
LinesOf(i) ==
  /\ options.verify /\ place \in Early => written[i] = <<>>
  /\ \A n \in 1 .. Len(written[i]) :
       /\ i \in Collected(Certificates)
       /\ written[i][n].verification = Verdict(i)
       /\ written[i][n].validity \in {"valid", "expired"}
       /\ written[i][n].validity = "expired" => NotAfter[holds[i]] < clock
       /\ written[i][n].validity = "valid" => NotAfter[holds[i]] >= 0

LinesInv == \A i \in Items : holds[i] \in Certificates => LinesOf(i)

\* Every certificate looked at is counted once, and printed once with the others.
CountInv ==
  place # "ended" /\ ~outputErr =>
    \A c \in Certificates :
      identityCounts[c] = Cardinality({i \in Seen : holds[i] = c /\ Matches(c)})

\* So is every encrypted PKCS#12 content whose callback has returned.  JSON is
\* written at the end.
Pending == Collected({"encrypted"}) \ {item}
Due(i) == i \in Pending \/ (~Grouped /\ i \in Seen /\ Matches(holds[i]))

WrittenInv ==
  place # "ended" /\ ~WriteFailed =>
    \A i \in Items :
      Len(written[i]) =
        IF Due(i) /\ (options.format = "json" => place = "exit") THEN 1 ELSE 0

GroupsInv ==
  place # "ended" /\ ~WriteFailed =>
    groups = IF Grouped /\ place \in Printed /\ (options.format = "json" => place = "exit")
             THEN Groups ELSE {}

SummaryInv ==
  place \in {"json", "exit"} =>
    /\ summary.matched = Cardinality(Selected)
    /\ summary.unique = Cardinality({holds[i] : i \in Selected})
    /\ summary.duplicates = summary.matched - summary.unique

OutInv == /\ OutTypes /\ VerdictInv /\ LinesInv
          /\ CountInv /\ WrittenInv /\ GroupsInv /\ SummaryInv /\ OutputExact

-----------------------------------------------------------------------------
(* Lemmas: the summary and the groups, from the counts of each certificate. *)

\* g gives the sum of f over any part of S; h adds it up, picking the elements.
IsSum(S, f, g) ==
  g[{}] = 0 /\ \A s \in SUBSET S : \A x \in s : g[s] = f[x] + g[s \ {x}]
AddsUp(S, pick, f, h) ==
  /\ h[{}] = 0
  /\ \A s \in SUBSET S :
       s # {} => pick[s] \in s /\ h[s] = f[pick[s]] + h[s \ {pick[s]}]

\* What adding up the elements of a set, one after another, comes to.
LEMMA AddUp ==
  ASSUME NEW S, IsFiniteSet(S), NEW pick, NEW f, NEW g, NEW h,
         IsSum(S, f, g), AddsUp(S, pick, f, h)
  PROVE  h[S] = g[S]
<1> DEFINE T == {s \in SUBSET S : h[s] # g[s]}
<1>1. SUFFICES ASSUME T # {} PROVE FALSE
  OBVIOUS
<1>2. T \subseteq FiniteSubsetsOf(S)
  BY FS_Subset DEF FiniteSubsetsOf
<1> HIDE DEF T
<1>3. PICK s \in T : \A t \in T : <<t, s>> \notin StrictSubsetOrdering(S)
  BY <1>1, <1>2, WFMin, FS_StrictSubsetOrderingWellFounded
<1> USE DEF T, IsSum, AddsUp
<1>4. s # {} /\ pick[s] \in s
  BY <1>3
<1> DEFINE t == s \ {pick[s]}
<1>5. <<t, s>> \in StrictSubsetOrdering(S) /\ t \in SUBSET S
  BY <1>3, <1>4 DEF StrictSubsetOrdering
<1>6. h[t] = g[t]
  BY <1>3, <1>5
<1> QED
  BY <1>3, <1>4, <1>6

\* The community modules' sum over a set adds up so, whatever element it takes next.
LEMMA SumIs ==
  ASSUME NEW S, IsFiniteSet(S), NEW f, NEW g, IsSum(S, f, g)
  PROVE  MapThenSumSet(LAMBDA c : f[c], S) = g[S]
<1> DEFINE pick == [s \in SUBSET S |-> CHOOSE x \in s : TRUE]
           Solves(h) == h = [s \in SUBSET S |-> IF s = {} THEN 0
                               ELSE f[CHOOSE x \in s : TRUE] + h[s \ {CHOOSE x \in s : TRUE}]]
           h == CHOOSE h : Solves(h)
<1>1. MapThenSumSet(LAMBDA c : f[c], S) = h[S]
  BY DEF MapThenSumSet, MapThenFoldSet
<1>2. \A s \in SUBSET S : s # {} => pick[s] \in s
  OBVIOUS
<1>3. Solves([s \in SUBSET S |-> g[s]])
  BY DEF IsSum
<1>4. Solves(h)
  BY <1>3
<1> HIDE DEF h
<1>5. h[{}] = 0
  BY <1>4
<1>6. \A s \in SUBSET S : s # {} => h[s] = f[pick[s]] + h[s \ {pick[s]}]
  BY <1>4
<1> HIDE DEF pick
<1>7. AddsUp(S, pick, f, h)
  BY <1>2, <1>5, <1>6 DEF AddsUp
<1> QED
  BY <1>1, <1>7, AddUp

\* So does the sum of what there is beyond one of each.
LEMMA SumLessOnes ==
  ASSUME NEW S, IsFiniteSet(S), NEW f, NEW g, IsSum(S, [c \in S |-> f[c] - 1], g)
  PROVE  MapThenSumSet(LAMBDA c : f[c] - 1, S) = g[S]
<1> DEFINE pick == [s \in SUBSET S |-> CHOOSE x \in s : TRUE]
           Solves(h) == h = [s \in SUBSET S |-> IF s = {} THEN 0
                               ELSE (f[CHOOSE x \in s : TRUE] - 1) + h[s \ {CHOOSE x \in s : TRUE}]]
           h == CHOOSE h : Solves(h)
<1>1. MapThenSumSet(LAMBDA c : f[c] - 1, S) = h[S]
  BY DEF MapThenSumSet, MapThenFoldSet
<1>2. \A s \in SUBSET S : s # {} => pick[s] \in s
  OBVIOUS
<1>3. Solves([s \in SUBSET S |-> g[s]])
  BY DEF IsSum
<1>4. Solves(h)
  BY <1>3
<1> HIDE DEF h
<1>5. h[{}] = 0
  BY <1>4
<1>6. \A s \in SUBSET S : s # {} => h[s] = (f[pick[s]] - 1) + h[s \ {pick[s]}]
  BY <1>4
<1> HIDE DEF pick
<1>7. AddsUp(S, pick, [c \in S |-> f[c] - 1], h)
  <2>1. \A s \in SUBSET S : s # {} => pick[s] \in S
    BY <1>2
  <2> QED
    BY <1>2, <1>5, <1>6, <2>1 DEF AddsUp
<1> QED
  BY <1>1, <1>7, AddUp

\* The certificates that are selected are those collected that match.
LEMMA SelectedFacts ==
  ASSUME CliTypes
  PROVE  /\ \A i : i \in Selected <=> i \in Collected(Certificates) /\ Matches(holds[i])
         /\ Selected \subseteq Items /\ IsFiniteSet(Selected)
         /\ \A i \in Selected : holds[i] \in Certificates
<1>1. options.expiration \in {Unset, 0}
  BY DEF CliTypes, Options
<1>2. \A c : Matches(c) <=> c # "issuer" /\ (options.expiration = 0 => NotAfter[c] <= 0)
  BY <1>1 DEF Matches, ExpiresWithin, Unset
<1>3. Selected \subseteq Items /\ \A i \in Selected : holds[i] \in Certificates
  BY DEF Selected, Collected
<1>4. IsFiniteSet(Selected)
  BY <1>3, FS_Subset, CliAssumption
<1> QED
  BY <1>2, <1>3, <1>4 DEF Selected, Collected

\* The occurrences of each certificate.
Occurrences(c) == {i \in Selected : holds[i] = c}

\* From the occurrences of each certificate, the summary of them all.
LEMMA SummaryFacts ==
  ASSUME CliTypes,
         \A c \in Certificates : identityCounts[c] = Cardinality(Occurrences(c))
  PROVE  /\ SummarizeIdentities.matched = Cardinality(Selected)
         /\ SummarizeIdentities.unique = Cardinality({holds[i] : i \in Selected})
         /\ SummarizeIdentities.duplicates =
              SummarizeIdentities.matched - SummarizeIdentities.unique
<1> DEFINE counted == {c \in Certificates : identityCounts[c] > 0}
           part(s) == {i \in Selected : holds[i] \in s}
           g == [s \in SUBSET counted |-> Cardinality(part(s))]
           less == [s \in SUBSET counted |-> Cardinality(part(s)) - Cardinality(s)]
<1>1. /\ IsFiniteSet(Selected) /\ \A i \in Selected : holds[i] \in Certificates
  BY SelectedFacts
<1>2. \A c \in Certificates : IsFiniteSet(Occurrences(c)) /\ identityCounts[c] \in Nat
  BY <1>1, FS_Subset, FS_CardinalityType DEF Occurrences
<1>3. counted = {holds[i] : i \in Selected}
  <2>1. \A c \in Certificates : identityCounts[c] > 0 <=> Occurrences(c) # {}
    BY <1>2, FS_EmptySet
  <2> QED
    BY <1>1, <2>1 DEF Occurrences
<1>4. IsFiniteSet(counted) /\ \A s \in SUBSET counted : IsFiniteSet(s)
  <2>1. IsFiniteSet(Certificates)
    <3>1. Certificates = {"expired"} \cup {"ending"} \cup {"soon"} \cup {"issuer"}
      BY DEF Certificates
    <3>2. IsFiniteSet({"expired"} \cup {"ending"})
      BY FS_Singleton, FS_AddElement
    <3>3. IsFiniteSet({"expired"} \cup {"ending"} \cup {"soon"})
      BY <3>2, FS_AddElement
    <3> QED
      BY <3>1, <3>3, FS_AddElement
  <2> QED
    BY <2>1, FS_Subset
<1> HIDE DEF counted
<1>5. part({}) = {} /\ part(counted) = Selected
  BY <1>3
<1>6. ASSUME NEW s \in SUBSET counted, NEW x \in s
      PROVE  /\ Cardinality(part(s)) = identityCounts[x] + Cardinality(part(s \ {x}))
             /\ Cardinality(s) = 1 + Cardinality(s \ {x})
             /\ identityCounts[x] \in Nat
             /\ Cardinality(part(s \ {x})) \in Nat /\ Cardinality(s \ {x}) \in Nat
  <2>1. x \in Certificates /\ identityCounts[x] = Cardinality(Occurrences(x))
    BY <1>1, <1>3
  <2>2. /\ part(s) = Occurrences(x) \cup part(s \ {x})
        /\ Occurrences(x) \cap part(s \ {x}) = {}
    BY DEF Occurrences
  <2>3. IsFiniteSet(Occurrences(x)) /\ IsFiniteSet(part(s \ {x}))
    BY <1>1, FS_Subset DEF Occurrences
  <2> HIDE DEF part
  <2>4. /\ Cardinality(part(s)) = Cardinality(Occurrences(x)) + Cardinality(part(s \ {x}))
                                  - Cardinality(Occurrences(x) \cap part(s \ {x}))
        /\ Cardinality(Occurrences(x)) \in Nat /\ Cardinality(part(s \ {x})) \in Nat
    BY <2>2, <2>3, FS_Union, FS_CardinalityType
  <2>5. Cardinality(Occurrences(x) \cap part(s \ {x})) = 0
    BY <2>2, FS_EmptySet
  <2>6. Cardinality(s \ {x}) = Cardinality(s) - 1 /\ Cardinality(s \ {x}) \in Nat
        /\ Cardinality(s) \in Nat
    <3>1. IsFiniteSet(s) /\ IsFiniteSet(s \ {x}) /\ x \in s
      BY <1>4, FS_RemoveElement
    <3>2. Cardinality(s \ {x}) = Cardinality(s) - 1
      BY <3>1, FS_RemoveElement
    <3> QED
      BY <3>1, <3>2, FS_CardinalityType
  <2> QED
    BY <2>1, <2>2, <2>4, <2>5, <2>6
<1> HIDE DEF part
<1>7. Cardinality({}) = 0
  BY FS_EmptySet
<1>8. IsSum(counted, identityCounts, g)
  <2>1. \A s \in SUBSET counted : \A x \in s : s \ {x} \in SUBSET counted
    OBVIOUS
  <2> QED
    BY <1>5, <1>6, <1>7, <2>1 DEF IsSum
<1>9. IsSum(counted, [c \in counted |-> identityCounts[c] - 1], less)
  <2>1. \A s \in SUBSET counted : \A x \in s : s \ {x} \in SUBSET counted /\ x \in counted
    OBVIOUS
  <2>2. less[{}] = 0
    BY <1>5, <1>7
  <2>3. ASSUME NEW s \in SUBSET counted, NEW x \in s
        PROVE  less[s] = (identityCounts[x] - 1) + less[s \ {x}]
    BY <1>6, <2>1
  <2> QED
    BY <2>1, <2>2, <2>3 DEF IsSum
<1>10. g[counted] = Cardinality(Selected)
       /\ less[counted] = Cardinality(Selected) - Cardinality(counted)
  BY <1>5
<1> HIDE DEF g, less
<1>11. MapThenSumSet(LAMBDA c : identityCounts[c], counted) = g[counted]
  BY <1>4, <1>8, SumIs
<1>12. MapThenSumSet(LAMBDA c : identityCounts[c] - 1, counted) = less[counted]
  BY <1>4, <1>9, SumLessOnes
<1>13. /\ SummarizeIdentities.matched = MapThenSumSet(LAMBDA c : identityCounts[c], counted)
       /\ SummarizeIdentities.unique = Cardinality(counted)
       /\ SummarizeIdentities.duplicates =
            MapThenSumSet(LAMBDA c : identityCounts[c] - 1, counted)
  BY DEF SummarizeIdentities, counted
<1> QED
  BY <1>3, <1>10, <1>11, <1>12, <1>13

\* What the groups that are printed hold, for a certificate at least or for two.
GroupsExact ==
  {holds[i] : i \in {k \in Selected : options.identity = "duplicates" =>
                       \E j \in Selected \ {k} : holds[j] = holds[k]}}

\* Counting the kept certificates of each kind finds those groups.
LEMMA GroupsFacts ==
  ASSUME CliTypes, Grouped
  PROVE  Groups = GroupsExact
<1>1. Kept = Collected(Certificates)
  BY DEF Kept
<1>2. /\ \A i : i \in Selected <=> i \in Kept /\ Matches(holds[i])
      /\ IsFiniteSet(Selected) /\ \A i \in Selected : holds[i] \in Certificates
  BY <1>1, SelectedFacts
<1>3. ASSUME NEW c \in Certificates, Matches(c)
      PROVE  /\ {i \in Kept : holds[i] = c} = Occurrences(c)
             /\ Cardinality(Occurrences(c)) >= 1 <=> Occurrences(c) # {}
             /\ Cardinality(Occurrences(c)) >= 2 <=>
                  \E i, j \in Occurrences(c) : i # j
  <2> DEFINE O == Occurrences(c)
  <2>1. {i \in Kept : holds[i] = c} = O
    BY <1>2, <1>3 DEF Occurrences
  <2>2. IsFiniteSet(O)
    BY <1>2, FS_Subset DEF Occurrences
  <2> HIDE DEF O
  <2>3. /\ Cardinality(O) \in Nat
        /\ Cardinality(O) = 0 <=> O = {}
        /\ Cardinality(O) = 1 <=> \E i : O = {i}
    BY <2>2, FS_CardinalityType, FS_EmptySet, FS_Singleton
  <2>4. (\E i, j \in O : i # j) <=> O # {} /\ ~\E i : O = {i}
    OBVIOUS
  <2>5. /\ Cardinality(O) >= 1 <=> Cardinality(O) # 0
        /\ Cardinality(O) >= 2 <=> Cardinality(O) # 0 /\ Cardinality(O) # 1
    BY <2>3
  <2>6. /\ Cardinality(O) >= 1 <=> O # {}
        /\ Cardinality(O) >= 2 <=> \E i, j \in O : i # j
    BY <2>3, <2>4, <2>5, Zenon
  <2> QED
    BY <2>1, <2>6 DEF O
<1>4. ASSUME NEW c
      PROVE  c \in Groups <=> c \in GroupsExact
  <2>1. CASE options.identity = "duplicates"
    <3>1. c \in Groups <=> c \in Certificates /\ Matches(c)
                            /\ Cardinality({i \in Kept : holds[i] = c}) >= 2
      BY <2>1 DEF Groups
    <3>2. c \in Groups <=> c \in Certificates /\ Matches(c)
                            /\ \E i, j \in Occurrences(c) : i # j
      BY <1>3, <3>1
    <3>3. c \in GroupsExact <=>
            \E k \in Selected : c = holds[k] /\ \E j \in Selected \ {k} : holds[j] = holds[k]
      BY <2>1 DEF GroupsExact
    <3> QED
      BY <1>2, <3>2, <3>3 DEF Occurrences
  <2>2. CASE options.identity # "duplicates"
    <3>1. c \in Groups <=> c \in Certificates /\ Matches(c)
                            /\ Cardinality({i \in Kept : holds[i] = c}) >= 1
      BY <2>2 DEF Groups
    <3>2. c \in Groups <=> c \in Certificates /\ Matches(c) /\ Occurrences(c) # {}
      BY <1>3, <3>1
    <3>3. c \in GroupsExact <=> \E k \in Selected : c = holds[k]
      BY <2>2 DEF GroupsExact
    <3> QED
      BY <1>2, <3>2, <3>3 DEF Occurrences
  <2> QED
    BY <2>1, <2>2
<1> QED
  BY <1>4

-----------------------------------------------------------------------------
(* Lemmas: the lines.                                                      *)

\* A line says what it is printed of.
LEMMA LineFacts ==
  ASSUME CliTypes, OutTypes, NEW i \in Items
  PROVE  /\ Line(i) \in Lines
         /\ holds[i] \in Certificates =>
              /\ Line(i).verification = verdict[i]
              /\ Line(i).validity \in {"valid", "expired"}
              /\ Line(i).validity = "expired" => NotAfter[holds[i]] < clock
              /\ Line(i).validity = "valid" => NotAfter[holds[i]] >= 0
<1>1. verdict[i] \in Statuses /\ clock \in Nat
  BY DEF OutTypes
<1>2. CASE holds[i] \in Certificates
  <2>1. Line(i) = [validity |-> ValidityStatus(holds[i]), verification |-> verdict[i]]
    BY <1>2 DEF Line
  <2>2. NotAfter[holds[i]] \in Int
    BY <1>2, CliAssumption DEF NotAfter, Certificates
  <2>3. CASE clock > NotAfter[holds[i]]
    <3>1. ValidityStatus(holds[i]) = "expired"
      BY <2>3 DEF ValidityStatus
    <3> QED
      BY <1>1, <2>1, <2>2, <2>3, <3>1 DEF Lines
  <2>4. CASE ~(clock > NotAfter[holds[i]])
    <3>1. ValidityStatus(holds[i]) = "valid"
      BY <2>4 DEF ValidityStatus
    <3>2. NotAfter[holds[i]] >= 0
      BY <1>1, <2>2, <2>4
    <3> QED
      BY <1>1, <2>1, <3>1, <3>2 DEF Lines
  <2> QED
    BY <2>3, <2>4
<1>3. CASE holds[i] \notin Certificates
  <2>1. Line(i) = [validity |-> "encrypted", verification |-> "none"]
    BY <1>3 DEF Line
  <2> QED
    BY <1>3, <2>1 DEF Lines, Statuses
<1> QED
  BY <1>2, <1>3

\* What a write does to the lines of the items: one line more, of one item.
LEMMA EmitLines ==
  ASSUME CliTypes, OutTypes, NEW i \in Items, Emit(i) \/ NoEmit
  PROVE  /\ written' \in [Items -> Seq(Lines)]
         /\ \A j \in Items : j # i => written'[j] = written[j]
         /\ \/ written'[i] = written[i]
            \/ written'[i] = Append(written[i], Line(i))
         /\ Emit(i) /\ ~outputErr' /\ ~displayErr' =>
              Len(written'[i]) = IF options.format = "json" THEN Len(written[i])
                                 ELSE Len(written[i]) + 1
<1>1. Line(i) \in Lines /\ written \in [Items -> Seq(Lines)]
  BY LineFacts DEF OutTypes
<1>2. CASE written' = written
  <2>1. Emit(i) /\ ~outputErr' /\ ~displayErr' => options.format = "json"
    <3>1. ASSUME Emit(i), ~outputErr', ~displayErr', options.format # "json"
          PROVE  FALSE
      <4>1. written' = [written EXCEPT ![i] = Append(@, Line(i))]
        BY <3>1 DEF Emit
      <4>2. written'[i] = Append(written[i], Line(i)) /\ written[i] \in Seq(Lines)
        BY <1>1, <4>1
      <4>3. Len(written'[i]) = Len(written[i]) + 1 /\ Len(written[i]) \in Nat
        BY <1>1, <4>2, AppendProperties, LenProperties
      <4> QED
        BY <1>2, <4>3
    <3> QED
      BY <3>1
  <2> QED
    BY <1>1, <1>2, <2>1
<1>3. CASE /\ options.format # "json"
           /\ written' = [written EXCEPT ![i] = Append(@, Line(i))]
  <2>1. written[i] \in Seq(Lines)
    BY <1>1
  <2>2. Append(written[i], Line(i)) \in Seq(Lines)
        /\ Len(Append(written[i], Line(i))) = Len(written[i]) + 1
    BY <1>1, <2>1, AppendProperties
  <2> QED
    BY <1>1, <1>3, <2>2
<1> QED
  BY <1>2, <1>3 DEF Emit, NoEmit

\* The verdict is that of what has been collected.
LEMMA VerdictStays ==
  ASSUME UNCHANGED <<collected, options, holds>>
  PROVE  \A i : Verdict(i)' = Verdict(i)
<1>1. Collected(Certificates)' = Collected(Certificates)
  BY SelectionStays
<1>2. Intermediates(Collected(Certificates))' = Intermediates(Collected(Certificates))
  BY <1>1 DEF Intermediates
<1> QED
  BY <1>2 DEF Verdict, VerificationStatus, ChainError

\* What was printed stays right as time passes.
LEMMA LineKept ==
  ASSUME NEW i \in Items, LinesOf(i), UNCHANGED <<options, holds>>,
         clock \in Nat, clock' \in Nat, clock' >= clock,
         holds[i] \in Certificates, written'[i] = written[i],
         options.verify /\ place' \in Early => place \in Early,
         \/ collected' = collected
         \/ /\ place \in Early
            /\ Collected(Certificates) \subseteq Collected(Certificates)'
  PROVE  LinesOf(i)'
<1>1. options.verify /\ place' \in Early => written'[i] = <<>>
  BY DEF LinesOf
<1>2. ASSUME NEW n \in 1 .. Len(written'[i])
      PROVE  /\ i \in Collected(Certificates)'
             /\ written'[i][n].verification = Verdict(i)'
             /\ written'[i][n].validity \in {"valid", "expired"}
             /\ written'[i][n].validity = "expired" => NotAfter[holds[i]] < clock'
             /\ written'[i][n].validity = "valid" => NotAfter[holds[i]] >= 0
  <2>1. /\ i \in Collected(Certificates)
        /\ written[i][n].verification = Verdict(i)
        /\ written[i][n].validity \in {"valid", "expired"}
        /\ written[i][n].validity = "expired" => NotAfter[holds[i]] < clock
        /\ written[i][n].validity = "valid" => NotAfter[holds[i]] >= 0
    BY <1>2 DEF LinesOf
  <2>2. NotAfter[holds[i]] \in Int
    BY CliAssumption DEF NotAfter, Certificates
  <2>3. CASE collected' = collected
    BY <2>1, <2>2, <2>3, VerdictStays, SelectionStays
  <2>4. CASE place \in Early /\ Collected(Certificates) \subseteq Collected(Certificates)'
    <3>1. ~options.verify
      <4>1. options.verify => Len(written'[i]) = 0
        BY <2>4, EmptySeq DEF LinesOf
      <4> QED
        BY <1>2, <4>1
    <3> QED
      BY <2>1, <2>2, <2>4, <3>1 DEF Verdict
  <2> QED
    BY <2>3, <2>4
<1> QED
  BY <1>1, <1>2 DEF LinesOf

\* A line more is right when it is printed.
LEMMA LineAdded ==
  ASSUME CliTypes, OutTypes, VerdictInv, NEW i \in Collected(Certificates),
         LinesOf(i), UNCHANGED <<collected, options, holds, clock>>,
         options.verify => place \in Verified /\ place' \in Verified,
         \/ written'[i] = written[i]
         \/ written'[i] = Append(written[i], Line(i))
         \/ written'[i] = <<Line(i)>>
  PROVE  LinesOf(i)'
<1>1. i \in Items /\ holds[i] \in Certificates /\ written[i] \in Seq(Lines)
  BY DEF Collected, OutTypes
<1>2. /\ Line(i) \in Lines
      /\ Line(i).verification = verdict[i]
      /\ Line(i).validity \in {"valid", "expired"}
      /\ Line(i).validity = "expired" => NotAfter[holds[i]] < clock
      /\ Line(i).validity = "valid" => NotAfter[holds[i]] >= 0
  BY <1>1, LineFacts
<1>3. verdict[i] = Verdict(i)
  BY <1>1 DEF VerdictInv, Verdict
<1>4. Verdict(i)' = Verdict(i) /\ Collected(Certificates)' = Collected(Certificates)
  BY VerdictStays, SelectionStays
<1>5. options.verify => place' \notin Early
  BY DEF Verified, Early, Ending, Scanning
<1>6. \A n \in 1 .. Len(written'[i]) :
        written'[i][n] = Line(i) \/ (n \in 1 .. Len(written[i]) /\ written'[i][n] = written[i][n])
  <2>1. CASE written'[i] = Append(written[i], Line(i))
    <3>1. /\ Len(written'[i]) = Len(written[i]) + 1 /\ Len(written[i]) \in Nat
          /\ \A n \in 1 .. Len(written[i]) : written'[i][n] = written[i][n]
          /\ written'[i][Len(written[i]) + 1] = Line(i)
      BY <1>1, <1>2, <2>1, AppendProperties, LenProperties
    <3> QED
      BY <3>1
  <2>2. CASE written'[i] = <<Line(i)>>
    <3>1. Len(written'[i]) = 1 /\ written'[i][1] = Line(i)
      BY <2>2
    <3> QED
      BY <3>1
  <2> QED
    BY <2>1, <2>2
<1>7. ASSUME NEW n \in 1 .. Len(written'[i])
      PROVE  /\ written'[i][n].verification = Verdict(i)
             /\ written'[i][n].validity \in {"valid", "expired"}
             /\ written'[i][n].validity = "expired" => NotAfter[holds[i]] < clock
             /\ written'[i][n].validity = "valid" => NotAfter[holds[i]] >= 0
  BY <1>2, <1>3, <1>6, <1>7 DEF LinesOf
<1> QED
  BY <1>4, <1>5, <1>7 DEF LinesOf

-----------------------------------------------------------------------------
(* Every step keeps the invariant of the output.                           *)

\* The steps that write nothing and count nothing.
Idle ==
  \/ LoadRoots \/ TakeOutcome \/ NoCallback \/ Tick \/ ProgressFails \/ ScanReturns
  \/ CheckScan \/ EndVerified

\* What such a step leaves alone.
IdleStep ==
  /\ place # "ended"
  /\ UNCHANGED <<options, holds, verdict, identityCounts, written, groups, summary>>
  /\ clock' = clock \/ clock' = clock + 1
  /\ outputErr => outputErr'
  /\ displayErr => displayErr'
  /\ jsonErr => jsonErr'
  /\ place' = "ended" => refused' \/ status' = "error" \/ WriteFailed'
  /\ place' # "ended" => Seen' = Seen /\ Pending' = Pending
  /\ \/ collected' = collected
     \/ /\ place \in Early
        /\ Collected(Certificates) \subseteq Collected(Certificates)'
  /\ place' \in Early => place \in Early
  /\ place' = place \/ (place \notin Printed /\ place' \notin Printed)
  /\ options.verify /\ place' \in Verified => place \in Verified /\ collected' = collected

\* They are such steps.
LEMMA IdleSteps == CliInv /\ Idle => IdleStep
<1> SUFFICES ASSUME CliInv, Idle PROVE IdleStep
  OBVIOUS
<1>1. CliTypes /\ PlaceInv /\ ErrorsInv /\ None \notin Items
  BY CliAssumption DEF CliInv
<1>2. CASE LoadRoots
  <2>1. /\ place = "roots"
        /\ UNCHANGED <<scanVars, item, todo, verdict, identityCounts, finding,
                       written, groups, outputErr, displayErr, jsonErr, summary>>
        /\ \/ place' = "scan"
           \/ refused' = TRUE /\ place' = "ended"
    BY <1>2 DEF LoadRoots, Leave
  <2>2. /\ UNCHANGED <<collected, options, holds, clock, verdict, identityCounts>>
        /\ UNCHANGED <<item, todo, written, groups, summary, outputErr, displayErr, jsonErr>>
    BY <2>1 DEF scanVars, contractVars, inputVars
  <2>3. place' # "ended" => Seen' = Seen /\ Pending' = Pending
    BY <2>1, <2>2, SelectionStays DEF Seen, Ahead, Scanning, Pending
  <2> QED
    BY <2>1, <2>2, <2>3 DEF IdleStep, Early, Scanning, Verified, Ending, Printed
<1>3. CASE TakeOutcome
  <2>1. PICK i \in Items : Deliver(i) /\ item' = i
    BY <1>3 DEF TakeOutcome
  <2>2. /\ place = "scan" /\ place' = "callback" /\ item' = i /\ collected[i] = 0
        /\ collected' = [collected EXCEPT ![i] = 1] /\ item = None
    BY <1>1, <1>3, <2>1 DEF TakeOutcome, Deliver, PlaceInv
  <2>3. /\ UNCHANGED <<options, holds, clock, verdict, identityCounts>>
        /\ UNCHANGED <<todo, written, groups, summary, outputErr, displayErr, jsonErr>>
    BY <1>3 DEF TakeOutcome, inputVars
  <2>4. ASSUME NEW contents
        PROVE  /\ Collected(contents)' \ {i} = Collected(contents)
               /\ None \notin Collected(contents)
    BY <1>1, <2>2, <2>3 DEF Collected, CliTypes
  <2>5. Pending' = Pending
    BY <2>2, <2>4 DEF Pending
  <2>6. Seen' = Seen
    <3>1. CASE options.verify
      BY <2>2, <2>3, <3>1 DEF Seen, Ahead, Scanning, Collected
    <3>2. CASE ~options.verify
      BY <2>2, <2>3, <2>4, <3>2 DEF Seen, Ahead
    <3> QED
      BY <3>1, <3>2
  <2>7. Collected(Certificates) \subseteq Collected(Certificates)'
    BY <2>4
  <2> QED
    BY <2>2, <2>3, <2>5, <2>6, <2>7 DEF IdleStep, Early, Scanning, Verified, Ending, Printed
<1>4. CASE NoCallback
  <2>1. /\ place = "callback" /\ holds[item] = "error" /\ place' = "scan"
        /\ item' = None
        /\ UNCHANGED <<scanVars, todo, verdict, identityCounts, written, groups>>
        /\ UNCHANGED <<outputErr, displayErr, jsonErr, summary>>
    BY <1>4 DEF NoCallback
  <2>2. UNCHANGED <<collected, options, holds, clock>>
    BY <2>1 DEF scanVars, contractVars, inputVars
  <2>3. ASSUME NEW contents, "error" \notin contents
        PROVE  /\ item \notin Collected(contents) /\ None \notin Collected(contents)
               /\ Collected(contents) \subseteq Items
               /\ Collected(contents)' = Collected(contents)
    BY <1>1, <2>1, <2>2, <2>3, SelectionStays DEF Collected
  <2>4. Seen' = Seen
    BY <2>1, <2>2, <2>3 DEF Seen, Ahead, Scanning, Certificates
  <2>5. Pending' = Pending
    BY <2>1, <2>3 DEF Pending
  <2> QED
    BY <2>1, <2>2, <2>4, <2>5 DEF IdleStep, Early, Scanning, Verified, Ending, Printed
<1>5. CASE Tick \/ ProgressFails \/ ScanReturns \/ CheckScan \/ EndVerified
  <2>1. /\ UNCHANGED <<collected, options, holds, verdict, identityCounts>>
        /\ UNCHANGED <<item, todo, written, groups, summary, outputErr, jsonErr>>
        /\ clock' = clock \/ clock' = clock + 1
        /\ displayErr => displayErr'
    <3>1. CASE Tick \/ ProgressFails
      BY <3>1 DEF Tick, ProgressFails, scanVars, contractVars, inputVars
    <3>2. CASE ScanReturns
      BY <3>2 DEF ScanReturns, DeliverReport, DeliverError, inputVars
    <3>3. CASE CheckScan \/ EndVerified
      BY <3>3 DEF CheckScan, EndVerified, scanVars, contractVars, inputVars
    <3> QED
      BY <1>5, <3>1, <3>2, <3>3
  <2>2. \/ place' = place /\ place # "ended"
        \/ place = "scan" /\ place' = "returned"
        \/ /\ place = "returned"
           /\ \/ place' = "ended" /\ (outputErr \/ status' = "error")
              \/ place' = IF options.verify THEN "verify" ELSE "group"
        \/ /\ place = "look"
           /\ \/ place' = "ended" /\ outputErr
              \/ place' = "group" /\ todo = {}
    <3>1. CASE Tick \/ ProgressFails
      BY <3>1 DEF Tick, ProgressFails
    <3>2. CASE ScanReturns
      BY <3>2 DEF ScanReturns
    <3>3. CASE CheckScan
      BY <3>3 DEF CheckScan, Leave, scanVars, contractVars
    <3>4. CASE EndVerified
      BY <3>4 DEF EndVerified, Leave
    <3> QED
      BY <1>5, <3>1, <3>2, <3>3, <3>4
  <2>3. place' # "ended" => Seen' = Seen /\ Pending' = Pending
    <3>1. /\ Collected(Certificates)' = Collected(Certificates)
          /\ Pending' = Pending
      BY <2>1, SelectionStays DEF Pending
    <3>2. place' # "ended" => Ahead' = Ahead
      BY <1>1, <2>1, <2>2 DEF Ahead, Scanning, PlaceInv
    <3> QED
      BY <3>1, <3>2 DEF Seen
  <2>4. place = "look" => options.verify
    BY <1>1 DEF PlaceInv
  <2> QED
    BY <2>1, <2>2, <2>3, <2>4 DEF IdleStep, Early, Scanning, Verified, Ending, Printed, WriteFailed
<1> QED
  BY <1>2, <1>3, <1>4, <1>5 DEF Idle

\* A certificate matches, and groups are those, of what is fixed.
LEMMA MatchesStays ==
  ASSUME UNCHANGED <<options, holds>>
  PROVE  /\ \A c : Matches(c)' <=> Matches(c)
         /\ Grouped' <=> Grouped
         /\ collected' = collected => Groups' = Groups
<1>1. (\A c : Matches(c)' <=> Matches(c)) /\ (Grouped' <=> Grouped)
  BY DEF Matches, ExpiresWithin, Grouped
<1>2. ASSUME collected' = collected PROVE Groups' = Groups
  <2>1. Kept' = Kept
    BY <1>2, SelectionStays DEF Kept, Grouped
  <2> QED
    BY <1>1, <2>1 DEF Groups
<1> QED
  BY <1>1, <1>2

\* Such a step loses nothing of what was counted and printed.
LEMMA IdleOut ==
  ASSUME CliInv, PlaceInv', OutInv, IdleStep
  PROVE  OutInv'
<1>1. /\ CliTypes /\ OutTypes /\ None \notin Items
      /\ UNCHANGED <<options, holds, verdict, identityCounts, written, groups, summary>>
      /\ clock \in Nat /\ clock' \in Nat /\ clock' >= clock
  BY CliAssumption DEF CliInv, OutInv, OutTypes, IdleStep
<1>2. OutTypes'
  BY <1>1 DEF OutTypes
<1>3. VerdictInv'
  <2>1. CASE ~options.verify
    BY <1>1, <2>1 DEF OutInv, VerdictInv
  <2>2. CASE options.verify /\ place' \in Verified
    <3>1. place \in Verified /\ collected' = collected
      BY <2>2 DEF IdleStep
    <3> QED
      BY <1>1, <2>2, <3>1, SelectionStays, VerdictStays DEF OutInv, VerdictInv
  <2>3. CASE options.verify /\ place' \notin Verified
    BY <1>1, <2>3 DEF VerdictInv
  <2> QED
    BY <2>1, <2>2, <2>3
<1>4. LinesInv'
  <2> SUFFICES ASSUME NEW i \in Items, holds[i] \in Certificates PROVE LinesOf(i)'
    BY <1>1 DEF LinesInv
  <2>1. LinesOf(i)
    BY DEF OutInv, LinesInv
  <2> QED
    BY <1>1, <2>1, LineKept DEF IdleStep
<1>5. ASSUME place' # "ended"
      PROVE  /\ place # "ended" /\ Seen' = Seen /\ Pending' = Pending
             /\ \A c : Matches(c)' <=> Matches(c)
             /\ Grouped' <=> Grouped
             /\ outputErr => outputErr'
             /\ WriteFailed => WriteFailed'
             /\ place' = "exit" <=> place = "exit"
             /\ place' \in Printed <=> place \in Printed
  BY <1>1, <1>5, MatchesStays DEF IdleStep, WriteFailed, Printed
<1>6. CountInv'
  <2> SUFFICES ASSUME place' # "ended", ~outputErr', NEW c \in Certificates
               PROVE  identityCounts[c] =
                        Cardinality({i \in Seen' : holds[i] = c /\ Matches(c)'})
    BY <1>1 DEF CountInv
  <2>1. place # "ended" /\ ~outputErr /\ Seen' = Seen /\ (Matches(c)' <=> Matches(c))
    BY <1>5
  <2>2. {i \in Seen' : holds[i] = c /\ Matches(c)'} = {i \in Seen : holds[i] = c /\ Matches(c)}
    BY <2>1
  <2> QED
    BY <2>1, <2>2 DEF OutInv, CountInv
<1>7. WrittenInv'
  <2> SUFFICES ASSUME place' # "ended", ~WriteFailed', NEW i \in Items
               PROVE  Len(written[i]) =
                        IF Due(i)' /\ (options.format = "json" => place' = "exit") THEN 1 ELSE 0
    BY <1>1 DEF WrittenInv
  <2>1. Due(i)' <=> Due(i)
    BY <1>1, <1>5 DEF Due
  <2>2. place # "ended" /\ ~WriteFailed
    BY <1>5 DEF IdleStep, WriteFailed
  <2> QED
    BY <1>5, <2>1, <2>2 DEF OutInv, WrittenInv
<1>8. GroupsInv'
  <2> SUFFICES ASSUME place' # "ended", ~WriteFailed'
               PROVE  groups = IF /\ Grouped' /\ place' \in Printed
                                  /\ (options.format = "json" => place' = "exit")
                               THEN Groups' ELSE {}
    BY <1>1 DEF GroupsInv
  <2>1. /\ place # "ended" /\ ~WriteFailed
        /\ place' = "exit" <=> place = "exit"
        /\ place' \in Printed <=> place \in Printed
        /\ Grouped' <=> Grouped
    BY <1>5 DEF IdleStep, WriteFailed
  <2>2. place' \in Printed => Groups' = Groups
    <3>1. place' \in Printed => collected' = collected
      BY DEF IdleStep, Printed, Early, Scanning
    <3> QED
      BY <1>1, <3>1, MatchesStays
  <2> QED
    BY <2>1, <2>2, Zenon DEF OutInv, GroupsInv
<1>9. SummaryInv'
  <2> SUFFICES ASSUME place' \in {"json", "exit"}
               PROVE  /\ summary.matched = Cardinality(Selected')
                      /\ summary.unique = Cardinality({holds[i] : i \in Selected'})
                      /\ summary.duplicates = summary.matched - summary.unique
    BY <1>1 DEF SummaryInv
  <2>1. place' = place /\ collected' = collected
    BY DEF IdleStep, Printed, Early, Scanning
  <2>2. Selected' = Selected
    BY <1>1, <2>1, SelectionStays
  <2> QED
    BY <2>1, <2>2 DEF OutInv, SummaryInv
<1>10. OutputExact'
  <2>1. (place' # "ended" /\ PlaceInv') \/ refused' \/ status' = "error" \/ WriteFailed'
    BY DEF IdleStep
  <2> QED
    BY <2>1 DEF OutputExact, Completed, PlaceInv
<1> QED
  BY <1>2, <1>3, <1>4, <1>6, <1>7, <1>8, <1>9, <1>10 DEF OutInv

\* A step that writes lines of one item, before certificates are printed, keeps the
\* rest.
LEMMA WriteOut ==
  ASSUME CliInv, OutInv, PlaceInv', place # "ended", place' # "ended",
         place \notin Printed, place' \notin Printed,
         UNCHANGED <<collected, options, holds, clock, verdict, groups, summary, jsonErr>>,
         outputErr => outputErr', displayErr => displayErr',
         options.verify /\ place' \in Verified => place \in Verified
  PROVE  VerdictInv' /\ GroupsInv' /\ SummaryInv' /\ OutputExact'
<1>1. VerdictInv'
  BY SelectionStays, VerdictStays DEF OutInv, VerdictInv
<1>2. GroupsInv'
  BY DEF OutInv, GroupsInv, WriteFailed
<1>3. SummaryInv'
  BY DEF SummaryInv, Printed
<1>4. OutputExact'
  BY DEF OutputExact, Completed, PlaceInv
<1> QED
  BY <1>1, <1>2, <1>3, <1>4

\* A certificate is looked at.
LEMMA LookOut ==
  ASSUME CliInv, OutInv, PlaceInv', place # "ended", place' # "ended",
         place \notin Printed, place' \notin Printed,
         UNCHANGED <<collected, options, holds, clock, verdict, groups, summary, jsonErr>>,
         options.verify => place \in Verified /\ place' \in Verified,
         NEW i \in Collected(Certificates), i \notin Seen, LookAt(i), ~outputErr,
         Seen' = Seen \cup {i}, Pending' = Pending
  PROVE  OutInv'
<1>1. /\ CliTypes /\ OutTypes /\ i \in Items /\ holds[i] \in Certificates
      /\ Seen \subseteq Items /\ IsFiniteSet(Seen)
  <2>1. Seen \subseteq Items
    BY DEF Seen, Collected
  <2>2. IsFiniteSet(Seen)
    BY <2>1, FS_Subset, CliAssumption
  <2> QED
    BY <2>1, <2>2 DEF CliInv, OutInv, Collected
<1>2. Emit(i) \/ NoEmit
  BY <1>1, LookAtFacts
<1>3. displayErr => displayErr'
  BY <1>1, <1>2, EmitFacts DEF CliTypes
<1>4. VerdictInv' /\ GroupsInv' /\ SummaryInv' /\ OutputExact'
  BY <1>3, WriteOut
<1>5. /\ written' \in [Items -> Seq(Lines)]
      /\ \A j \in Items : j # i => written'[j] = written[j]
      /\ \/ written'[i] = written[i]
         \/ written'[i] = Append(written[i], Line(i))
      /\ Emit(i) /\ ~outputErr' /\ ~displayErr' =>
           Len(written'[i]) = IF options.format = "json" THEN Len(written[i])
                              ELSE Len(written[i]) + 1
  BY <1>1, <1>2, EmitLines
<1>6. /\ \A c : Matches(c)' <=> Matches(c)
      /\ Grouped' <=> Grouped
  BY MatchesStays
<1>7. LinesInv'
  <2>1. ASSUME NEW j \in Items, j # i, holds[j] \in Certificates PROVE LinesOf(j)'
    <3>1. LinesOf(j) /\ clock \in Nat /\ clock' = clock /\ clock >= clock
      BY <1>1, <2>1 DEF OutInv, LinesInv, OutTypes
    <3>2. ~(options.verify /\ place' \in Early)
      BY DEF Early, Verified, Scanning, Ending
    <3> QED
      BY <1>1, <1>5, <2>1, <3>1, <3>2, LineKept
  <2>2. LinesOf(i)'
    BY <1>1, <1>5, LineAdded DEF OutInv, LinesInv
  <2> QED
    BY <2>1, <2>2 DEF LinesInv
<1>8. CASE Matches(holds[i])
  <2> DEFINE c0 == holds[i]
             Of(c) == {j \in Seen : holds[j] = c /\ Matches(c)}
             Of2(c) == {j \in Seen \cup {i} : holds[j] = c /\ Matches(c)}
  <2>1. /\ identityCounts' = [identityCounts EXCEPT ![c0] = @ + 1]
        /\ IF Grouped THEN NoEmit ELSE Emit(i)
    BY <1>8 DEF LookAt
  <2>2. /\ identityCounts' \in [Certificates -> Nat]
        /\ \A c \in Certificates :
             identityCounts'[c] = IF c = c0 THEN identityCounts[c] + 1 ELSE identityCounts[c]
    BY <1>1, <2>1 DEF OutTypes
  <2>3. OutTypes'
    BY <1>1, <1>5, <2>2 DEF OutTypes
  <2>4. \A c \in Certificates : IsFiniteSet(Of(c)) /\ identityCounts[c] = Cardinality(Of(c))
    BY <1>1, FS_Subset DEF OutInv, CountInv
  <2>5. /\ Of2(c0) = Of(c0) \cup {i} /\ i \notin Of(c0)
        /\ \A c : c # c0 => Of2(c) = Of(c)
    BY <1>8
  <2>6. Cardinality(Of2(c0)) = Cardinality(Of(c0)) + 1
    <3> HIDE DEF Of, Of2
    <3> QED
      BY <1>1, <2>4, <2>5, FS_AddElement
  <2>7. \A c \in Certificates : identityCounts'[c] = Cardinality(Of2(c))
    <3> HIDE DEF Of, Of2
    <3> QED
      BY <2>2, <2>4, <2>5, <2>6
  <2>8. CountInv'
    <3> SUFFICES ASSUME NEW c \in Certificates
                 PROVE  identityCounts'[c] =
                          Cardinality({j \in Seen' : holds'[j] = c /\ Matches(c)'})
      BY DEF CountInv
    <3>1. {j \in Seen' : holds'[j] = c /\ Matches(c)'} = Of2(c)
      BY <1>6
    <3> QED
      BY <2>7, <3>1
  <2>9. WrittenInv'
    <3> SUFFICES ASSUME ~WriteFailed', NEW j \in Items
                 PROVE  Len(written'[j]) =
                          IF Due(j)' /\ (options.format = "json" => place' = "exit")
                          THEN 1 ELSE 0
      BY DEF WrittenInv
    <3>1. /\ place # "exit" /\ place' # "exit"
          /\ ~WriteFailed /\ ~outputErr' /\ ~displayErr'
      BY <1>3 DEF Printed, WriteFailed
    <3>2. Len(written[j]) = IF Due(j) /\ options.format # "json" THEN 1 ELSE 0
      BY <3>1 DEF OutInv, WrittenInv
    <3>3. CASE j # i
      <4>1. Due(j)' <=> Due(j)
        BY <1>6, <3>3 DEF Due
      <4> QED
        BY <1>5, <3>1, <3>2, <3>3, <4>1
    <3>4. CASE j = i
      <4>1. j \notin Pending /\ j \notin Pending'
        BY <3>4 DEF Pending, Collected, Certificates
      <4>2. ~Due(j)
        BY <3>4, <4>1 DEF Due
      <4>3. j \in Seen' /\ (Grouped' <=> Grouped) /\ Matches(holds[j])'
        BY <1>6, <1>8, <3>4
      <4>4. Due(j)' <=> ~Grouped
        BY <4>1, <4>3 DEF Due
      <4>5. Len(written[j]) = 0
        BY <3>2, <4>2
      <4>6. Grouped => Len(written'[j]) = 0
        BY <2>1, <4>5 DEF NoEmit
      <4>7. ~Grouped => Len(written'[j]) = IF options.format = "json" THEN 0 ELSE 1
        BY <1>5, <2>1, <3>1, <3>4, <4>5
      <4> QED
        BY <3>1, <4>4, <4>6, <4>7
    <3> QED
      BY <3>3, <3>4
  <2> QED
    BY <1>4, <1>7, <2>3, <2>8, <2>9 DEF OutInv
<1>9. CASE ~Matches(holds[i])
  <2>1. written' = written /\ identityCounts' = identityCounts
        /\ displayErr' = displayErr /\ outputErr' = outputErr
    BY <1>9 DEF LookAt, NoEmit
  <2>2. OutTypes'
    BY <1>1, <2>1 DEF OutTypes
  <2>3. CountInv'
    <3> SUFFICES ASSUME NEW c \in Certificates
                 PROVE  identityCounts[c] =
                          Cardinality({j \in Seen' : holds'[j] = c /\ Matches(c)'})
      BY <2>1 DEF CountInv
    <3>1. {j \in Seen' : holds'[j] = c /\ Matches(c)'} = {j \in Seen : holds[j] = c /\ Matches(c)}
      BY <1>6, <1>9
    <3> QED
      BY <3>1 DEF OutInv, CountInv
  <2>4. WrittenInv'
    <3> SUFFICES ASSUME ~WriteFailed', NEW j \in Items
                 PROVE  Len(written[j]) =
                          IF Due(j)' /\ (options.format = "json" => place' = "exit")
                          THEN 1 ELSE 0
      BY <2>1 DEF WrittenInv
    <3>1. Due(j)' <=> Due(j)
      BY <1>6, <1>9 DEF Due
    <3> QED
      BY <2>1, <3>1 DEF OutInv, WrittenInv, WriteFailed, Printed
  <2> QED
    BY <1>4, <1>7, <2>2, <2>3, <2>4 DEF OutInv
<1> QED
  BY <1>8, <1>9

\* A step that changes no line and no verdict keeps what is right about them.
LEMMA LinesStay ==
  ASSUME OutInv,
         UNCHANGED <<collected, options, holds, clock, verdict, identityCounts, written>>,
         options.verify /\ place' \in Verified => place \in Verified,
         options.verify /\ place' \in Early => place \in Early
  PROVE  OutTypes' /\ VerdictInv' /\ LinesInv'
<1>1. OutTypes'
  BY DEF OutInv, OutTypes
<1>2. VerdictInv'
  BY SelectionStays, VerdictStays DEF OutInv, VerdictInv
<1>3. LinesInv'
  <2> SUFFICES ASSUME NEW i \in Items, holds[i] \in Certificates PROVE LinesOf(i)'
    BY DEF LinesInv
  <2>1. LinesOf(i) /\ clock \in Nat /\ clock' = clock /\ clock >= clock
    BY DEF OutInv, LinesInv, OutTypes
  <2> QED
    BY <2>1, LineKept
<1> QED
  BY <1>1, <1>2, <1>3

\* A step that looks at no certificate and writes no line keeps the counts.
LEMMA CountsStay ==
  ASSUME CountInv, WrittenInv, UNCHANGED <<options, holds, identityCounts, written>>,
         place # "ended", Seen' = Seen, Pending' = Pending,
         outputErr => outputErr', WriteFailed => WriteFailed',
         options.format = "json" => (place' = "exit" <=> place = "exit")
  PROVE  CountInv' /\ WrittenInv'
<1>1. (\A c : Matches(c)' <=> Matches(c)) /\ (Grouped' <=> Grouped)
  BY MatchesStays
<1>2. CountInv'
  <2> SUFFICES ASSUME place' # "ended", ~outputErr', NEW c \in Certificates
               PROVE  identityCounts[c] =
                        Cardinality({i \in Seen' : holds[i] = c /\ Matches(c)'})
    BY DEF CountInv
  <2>1. {i \in Seen' : holds[i] = c /\ Matches(c)'} = {i \in Seen : holds[i] = c /\ Matches(c)}
    BY <1>1
  <2> QED
    BY <2>1 DEF CountInv
<1>3. WrittenInv'
  <2> SUFFICES ASSUME ~WriteFailed', NEW i \in Items
               PROVE  Len(written[i]) =
                        IF Due(i)' /\ (options.format = "json" => place' = "exit") THEN 1 ELSE 0
    BY DEF WrittenInv
  <2>1. Due(i)' <=> Due(i)
    BY <1>1 DEF Due
  <2> QED
    BY <2>1 DEF WrittenInv
<1> QED
  BY <1>2, <1>3

\* Nothing happens to the output when the run has ended, or by a signal.
LEMMA SameOut ==
  ASSUME OutInv, CliInv, UNCHANGED <<collected, options, holds, clock, place, item, todo>>,
         UNCHANGED <<verdict, identityCounts, written, groups, summary, outputErr, displayErr>>,
         UNCHANGED <<jsonErr, refused, exit>>,
         status' = status
  PROVE  OutInv'
<1>1. OutTypes' /\ VerdictInv' /\ LinesInv'
  BY LinesStay
<1>2. /\ \A contents : Collected(contents)' = Collected(contents)
      /\ Selected' = Selected /\ (Grouped' <=> Grouped) /\ Groups' = Groups
      /\ \A c : Matches(c)' <=> Matches(c)
  BY SelectionStays, MatchesStays
<1>3. Seen' = Seen /\ Pending' = Pending /\ (WriteFailed' <=> WriteFailed)
  BY <1>2 DEF Seen, Ahead, Pending, WriteFailed
<1>4. CountInv' /\ WrittenInv'
  <2>1. CASE place = "ended"
    BY <2>1 DEF CountInv, WrittenInv
  <2>2. CASE place # "ended"
    BY <1>3, <2>2, CountsStay DEF OutInv
  <2> QED
    BY <2>1, <2>2
<1>5. GroupsInv'
  BY <1>2, <1>3 DEF OutInv, GroupsInv
<1>6. SummaryInv'
  BY <1>2 DEF OutInv, SummaryInv
<1>7. OutputExact'
  <2>1. Completed' <=> Completed
    BY <1>3 DEF Completed
  <2> QED
    BY <1>2, <2>1 DEF OutInv, OutputExact
<1> QED
  BY <1>1, <1>4, <1>5, <1>6, <1>7 DEF OutInv

\* A certificate is verified against all that have been collected.
LEMMA VerifyOut == CliInv /\ PlaceInv' /\ OutInv /\ VerifyCertificates => OutInv'
<1> SUFFICES ASSUME CliInv, PlaceInv', OutInv, VerifyCertificates PROVE OutInv'
  OBVIOUS
<1>1. /\ CliTypes /\ PlaceInv /\ OutTypes
      /\ place = "verify" /\ options.verify
      /\ Kept = Collected(Certificates) /\ Kept \subseteq Items
  BY DEF CliInv, OutInv, VerifyCertificates, PlaceInv, Kept, Collected
<1>2. /\ UNCHANGED <<collected, options, holds, clock, item, identityCounts, written>>
      /\ UNCHANGED <<groups, outputErr, displayErr, jsonErr>>
  BY DEF VerifyCertificates, scanVars, contractVars, inputVars
<1>3. /\ \A contents : Collected(contents)' = Collected(contents)
      /\ \A i : Verdict(i)' = Verdict(i)
  BY <1>2, SelectionStays, VerdictStays
<1>4. CASE refused' = TRUE /\ Leave(1) /\ UNCHANGED <<todo, verdict>>
  <2>1. place' = "ended"
    BY <1>4 DEF Leave
  <2>2. OutTypes' /\ VerdictInv' /\ LinesInv'
    BY <1>2, <1>4, <2>1, LinesStay DEF Verified, Ending, Early, Scanning
  <2>3. CountInv' /\ WrittenInv' /\ GroupsInv' /\ SummaryInv'
    BY <2>1 DEF CountInv, WrittenInv, GroupsInv, SummaryInv
  <2>4. OutputExact'
    BY <1>4 DEF OutputExact, Completed
  <2> QED
    BY <2>2, <2>3, <2>4 DEF OutInv
<1>5. CASE /\ todo' = Kept /\ place' = "look"
           /\ verdict' = [i \in Items |->
                IF i \in Kept
                  THEN VerificationStatus(holds[i],
                         ChainError(holds[i], Intermediates(Kept)))
                  ELSE "none"]
  <2>1. OutTypes'
    <3>1. \A i \in Kept : VerificationStatus(holds[i],
                            ChainError(holds[i], Intermediates(Kept))) \in Statuses
      <4> SUFFICES ASSUME NEW i \in Kept, NEW intermediates
                   PROVE  VerificationStatus(holds[i],
                            ChainError(holds[i], intermediates)) \in Statuses
        OBVIOUS
      <4>1. holds[i] \in Certificates /\ NotAfter[holds[i]] \in Int
        BY <1>1, CliAssumption DEF Collected, NotAfter, Certificates
      <4> QED
        BY <4>1 DEF VerificationStatus, ChainError, Statuses
    <3>2. "none" \in Statuses
      BY DEF Statuses
    <3>3. verdict' \in [Items -> Statuses]
      BY <1>5, <3>1, <3>2
    <3> QED
      BY <1>1, <1>2, <3>3 DEF OutTypes
  <2>2. VerdictInv'
    BY <1>1, <1>2, <1>3, <1>5 DEF VerdictInv, Verdict
  <2>3. LinesInv'
    <3> SUFFICES ASSUME NEW i \in Items, holds[i] \in Certificates PROVE LinesOf(i)'
      BY <1>2 DEF LinesInv
    <3>1. written'[i] = <<>>
      BY <1>1, <1>2 DEF OutInv, LinesInv, LinesOf, Early
    <3>2. 1 .. Len(written'[i]) = {}
      BY <3>1
    <3>3. place' \notin Early
      BY <1>5 DEF Early, Scanning
    <3> QED
      BY <3>2, <3>3 DEF LinesOf
  <2>4. Seen' = Seen /\ Pending' = Pending /\ (WriteFailed' <=> WriteFailed)
    BY <1>1, <1>2, <1>3, <1>5 DEF Seen, Ahead, Scanning, Pending, WriteFailed
  <2>5. CountInv' /\ WrittenInv'
    BY <1>1, <1>2, <1>5, <2>4, CountsStay DEF OutInv
  <2>6. GroupsInv'
    BY <1>1, <1>2, <1>5, <2>4 DEF OutInv, GroupsInv, Printed
  <2>7. SummaryInv' /\ OutputExact'
    BY <1>5 DEF SummaryInv, OutputExact, Completed, PlaceInv
  <2> QED
    BY <2>1, <2>2, <2>3, <2>5, <2>6, <2>7 DEF OutInv
<1> QED
  BY <1>4, <1>5 DEF VerifyCertificates

\* Once certificates have been looked at, all those collected have been.
LEMMA AllSeen ==
  ASSUME CliInv, place \in Ending
  PROVE  Seen = Collected(Certificates) /\ Pending = Collected({"encrypted"})
<1>1. item = None /\ todo = {} /\ None \notin Items
  BY CliAssumption DEF CliInv, PlaceInv, Ending
<1>2. \A contents : None \notin Collected(contents)
  BY <1>1 DEF Collected
<1> QED
  BY <1>1, <1>2 DEF Seen, Ahead, Pending, Ending, Scanning

\* Groups are printed at once, and all of them unless the display fails.
LEMMA PrintGroupsOut == CliInv /\ PlaceInv' /\ OutInv /\ PrintGroups => OutInv'
<1> SUFFICES ASSUME CliInv, PlaceInv', OutInv, PrintGroups PROVE OutInv'
  OBVIOUS
<1>1. /\ CliTypes /\ place = "group" /\ place' = "stop"
      /\ UNCHANGED <<collected, options, holds, clock, item, todo, verdict>>
      /\ UNCHANGED <<identityCounts, written, outputErr, jsonErr>>
  BY DEF CliInv, PrintGroups, scanVars, contractVars, inputVars
<1>2. IF Grouped /\ options.format = "text" /\ ~displayErr
        THEN \/ groups' = Groups /\ displayErr' = displayErr
             \/ displayErr' = TRUE /\ groups' \in SUBSET Groups \ {Groups}
        ELSE UNCHANGED <<groups, displayErr>>
  BY DEF PrintGroups
<1>3. displayErr => displayErr'
  BY <1>2
<1>4. OutTypes' /\ VerdictInv' /\ LinesInv'
  BY <1>1, LinesStay DEF Verified, Ending, Early, Scanning
<1>5. Seen' = Seen /\ Pending' = Pending
  BY <1>1, SelectionStays DEF Seen, Ahead, Scanning, Pending
<1>6. WriteFailed => WriteFailed'
  BY <1>1, <1>3 DEF WriteFailed
<1>7. CountInv' /\ WrittenInv'
  BY <1>1, <1>5, <1>6, CountsStay DEF OutInv
<1>8. GroupsInv'
  <2> SUFFICES ASSUME ~WriteFailed'
               PROVE  groups' = IF Grouped' /\ options.format # "json" THEN Groups' ELSE {}
    BY <1>1 DEF GroupsInv, Printed
  <2>1. ~displayErr' /\ ~displayErr /\ groups = {}
    BY <1>1, <1>3, <1>6 DEF OutInv, GroupsInv, Printed, WriteFailed
  <2>2. (Grouped' <=> Grouped) /\ Groups' = Groups
    BY <1>1, MatchesStays
  <2>3. Grouped /\ options.format # "json" => options.format = "text"
    BY <1>1 DEF CliTypes, Options, Grouped
  <2>4. CASE Grouped /\ options.format # "json"
    BY <1>2, <2>1, <2>2, <2>3, <2>4
  <2>5. CASE ~(Grouped /\ options.format # "json")
    <3>1. ~(Grouped /\ options.format = "text")
      BY <2>5
    <3> QED
      BY <1>2, <2>1, <2>2, <2>5, <3>1
  <2> QED
    BY <2>4, <2>5
<1>9. SummaryInv' /\ OutputExact'
  BY <1>1 DEF SummaryInv, OutputExact, Completed, PlaceInv
<1> QED
  BY <1>4, <1>7, <1>8, <1>9 DEF OutInv

\* The summary is made when every certificate collected has been counted.
LEMMA StopOut == CliInv /\ PlaceInv' /\ OutInv /\ Stop => OutInv'
<1> SUFFICES ASSUME CliInv, PlaceInv', OutInv, Stop PROVE OutInv'
  OBVIOUS
<1>1. /\ CliTypes /\ place = "stop" /\ summary' = SummarizeIdentities
      /\ IF displayErr THEN place' = "ended" ELSE place' = "json"
      /\ UNCHANGED <<collected, options, holds, clock, item, todo, verdict>>
      /\ UNCHANGED <<identityCounts, written, groups, outputErr, displayErr, jsonErr>>
  BY DEF CliInv, Stop, Leave, scanVars, contractVars, inputVars
<1>2. OutTypes' /\ VerdictInv' /\ LinesInv'
  BY <1>1, LinesStay DEF Verified, Ending, Early, Scanning
<1>3. WriteFailed' <=> WriteFailed
  BY <1>1 DEF WriteFailed
<1>4. CountInv' /\ WrittenInv'
  <2>1. Seen' = Seen /\ Pending' = Pending
    BY <1>1, SelectionStays DEF Seen, Ahead, Scanning, Pending
  <2> QED
    BY <1>1, <1>3, <2>1, CountsStay DEF OutInv
<1>5. GroupsInv'
  BY <1>1, <1>3, MatchesStays DEF OutInv, GroupsInv, Printed
<1>6. SummaryInv'
  <2>1. Seen = Collected(Certificates) /\ ~outputErr
    BY <1>1, AllSeen DEF CliInv, ErrorsInv, Ending
  <2>2. \A c \in Certificates : identityCounts[c] = Cardinality(Occurrences(c))
    <3> SUFFICES ASSUME NEW c \in Certificates
                 PROVE  identityCounts[c] = Cardinality(Occurrences(c))
      OBVIOUS
    <3>1. Occurrences(c) = {i \in Seen : holds[i] = c /\ Matches(c)}
      BY <1>1, <2>1, SelectedFacts DEF Occurrences
    <3> QED
      BY <1>1, <2>1, <3>1 DEF OutInv, CountInv
  <2>3. /\ summary'.matched = Cardinality(Selected)
        /\ summary'.unique = Cardinality({holds[i] : i \in Selected})
        /\ summary'.duplicates = summary'.matched - summary'.unique
    BY <1>1, <2>2, SummaryFacts
  <2>4. Selected' = Selected
    BY <1>1, SelectionStays
  <2> QED
    BY <1>1, <2>3, <2>4 DEF SummaryInv
<1>7. OutputExact'
  BY <1>1 DEF OutputExact, Completed, PlaceInv, WriteFailed
<1> QED
  BY <1>2, <1>4, <1>5, <1>6, <1>7 DEF OutInv

\* The JSON document says of each item what the other formats have said by then.
LEMMA PrintJSONOut == CliInv /\ PlaceInv' /\ OutInv /\ PrintJSON => OutInv'
<1> SUFFICES ASSUME CliInv, PlaceInv', OutInv, PrintJSON PROVE OutInv'
  OBVIOUS
<1>1. /\ CliTypes /\ OutTypes /\ place = "json"
      /\ UNCHANGED <<collected, options, holds, clock, item, todo, verdict>>
      /\ UNCHANGED <<identityCounts, outputErr, displayErr, summary>>
      /\ place' \in {"exit", "ended"}
  BY DEF CliInv, OutInv, PrintJSON, Leave, scanVars, contractVars, inputVars
<1>2. Seen' = Seen /\ Pending' = Pending
  BY <1>1, SelectionStays DEF Seen, Ahead, Scanning, Pending
<1>3. /\ Selected' = Selected /\ (Grouped' <=> Grouped) /\ Groups' = Groups
      /\ \A c : Matches(c)' <=> Matches(c)
  BY <1>1, SelectionStays, MatchesStays
<1>4. CASE jsonErr' = TRUE /\ Leave(1) /\ UNCHANGED <<written, groups>>
  <2>1. place' = "ended" /\ written' = written
    BY <1>4 DEF Leave
  <2>2. OutTypes' /\ VerdictInv' /\ LinesInv'
    BY <1>1, <2>1, LinesStay DEF Verified, Ending, Early, Scanning
  <2>3. CountInv' /\ WrittenInv' /\ GroupsInv' /\ SummaryInv'
    BY <2>1 DEF CountInv, WrittenInv, GroupsInv, SummaryInv
  <2>4. OutputExact'
    BY <1>4 DEF OutputExact, Completed, WriteFailed
  <2> QED
    BY <2>2, <2>3, <2>4 DEF OutInv
<1>5. ASSUME place' = "exit", jsonErr' = jsonErr
      PROVE  /\ CountInv' /\ SummaryInv' /\ OutputExact' /\ VerdictInv'
             /\ WriteFailed' <=> WriteFailed
  <2>1. CountInv'
    <3> SUFFICES ASSUME ~outputErr, NEW c \in Certificates
                 PROVE  identityCounts[c] =
                          Cardinality({i \in Seen' : holds[i] = c /\ Matches(c)'})
      BY <1>1 DEF CountInv
    <3>1. {i \in Seen' : holds[i] = c /\ Matches(c)'} = {i \in Seen : holds[i] = c /\ Matches(c)}
      BY <1>2, <1>3
    <3> QED
      BY <1>1, <3>1 DEF OutInv, CountInv
  <2>2. SummaryInv'
    BY <1>1, <1>3, <1>5 DEF OutInv, SummaryInv
  <2>3. OutputExact'
    BY <1>5 DEF OutputExact, Completed, PlaceInv
  <2>4. VerdictInv'
    BY <1>1, SelectionStays, VerdictStays DEF OutInv, VerdictInv, Verified, Ending
  <2> QED
    BY <1>1, <1>5, <2>1, <2>2, <2>3, <2>4 DEF WriteFailed
<1>6. CASE /\ options.format # "json" /\ place' = "exit"
           /\ UNCHANGED <<written, groups, jsonErr>>
  <2>1. OutTypes' /\ VerdictInv' /\ LinesInv'
    BY <1>1, <1>6, LinesStay DEF Verified, Ending, Early, Scanning
  <2>2. WrittenInv'
    BY <1>1, <1>2, <1>5, <1>6, CountsStay DEF OutInv
  <2>3. GroupsInv'
    BY <1>1, <1>3, <1>5, <1>6 DEF OutInv, GroupsInv, Printed
  <2> QED
    BY <1>5, <1>6, <2>1, <2>2, <2>3 DEF OutInv
<1>7. CASE /\ options.format = "json" /\ place' = "exit" /\ jsonErr' = jsonErr
           /\ written' = [i \in Items |->
                IF i \in Collected({"encrypted"})
                     \/ (~Grouped /\ i \in Kept /\ Matches(holds[i]))
                THEN <<Line(i)>> ELSE <<>>]
           /\ groups' = IF Grouped THEN Groups ELSE {}
  <2>1. /\ Kept = Collected(Certificates)
        /\ Seen = Collected(Certificates) /\ Pending = Collected({"encrypted"})
    BY <1>1, <1>7, AllSeen DEF Kept, Ending
  <2>2. \A i \in Items : written'[i] = IF Due(i) THEN <<Line(i)>> ELSE <<>>
    BY <1>7, <2>1 DEF Due
  <2>3. \A i \in Items : Line(i) \in Lines
    BY <1>1, LineFacts
  <2>4. OutTypes'
    <3>1. \A i \in Items : <<Line(i)>> \in Seq(Lines) /\ <<>> \in Seq(Lines)
      BY <2>3
    <3>2. written' \in [Items -> Seq(Lines)]
      BY <1>7, <3>1
    <3> QED
      BY <1>1, <3>2 DEF OutTypes
  <2>5. LinesInv'
    <3> SUFFICES ASSUME NEW i \in Items, holds[i] \in Certificates PROVE LinesOf(i)'
      BY <1>1 DEF LinesInv
    <3>1. CASE Due(i)
      <4>1. i \in Collected(Certificates)
        BY <2>1, <3>1 DEF Due, Collected, Certificates
      <4>2. /\ options.verify => place \in Verified /\ place' \in Verified
            /\ written'[i] = <<Line(i)>>
            /\ LinesOf(i)
        BY <1>1, <1>7, <2>2, <3>1 DEF OutInv, LinesInv, Verified, Ending
      <4> QED
        BY <1>1, <4>1, <4>2, LineAdded DEF OutInv
    <3>2. CASE ~Due(i)
      <4>1. written'[i] = <<>> /\ place' \notin Early
        BY <1>7, <2>2, <3>2 DEF Early, Scanning
      <4>2. 1 .. Len(written'[i]) = {}
        BY <4>1
      <4> QED
        BY <4>1, <4>2 DEF LinesOf
    <3> QED
      BY <3>1, <3>2
  <2>6. WrittenInv'
    <3> SUFFICES ASSUME NEW i \in Items
                 PROVE  Len(written'[i]) = IF Due(i)' THEN 1 ELSE 0
      BY <1>1, <1>7 DEF WrittenInv
    <3>1. Due(i)' <=> Due(i)
      BY <1>1, <1>2, <1>3 DEF Due
    <3>2. Len(<<Line(i)>>) = 1 /\ Len(<<>>) = 0
      OBVIOUS
    <3> QED
      BY <2>2, <3>1, <3>2
  <2>7. GroupsInv'
    BY <1>3, <1>7 DEF GroupsInv, Printed
  <2> QED
    BY <1>5, <1>7, <2>4, <2>5, <2>6, <2>7 DEF OutInv
<1> QED
  BY <1>4, <1>6, <1>7 DEF PrintJSON

\* At the end the output is what was collected and selected.
LEMMA ExitOut == CliInv /\ OutInv /\ Exit => OutInv'
<1> SUFFICES ASSUME CliInv, OutInv, Exit PROVE OutInv'
  OBVIOUS
<1>1. /\ CliTypes /\ place = "exit" /\ place' = "ended"
      /\ UNCHANGED <<collected, options, holds, clock, item, todo, verdict>>
      /\ UNCHANGED <<identityCounts, written, groups, outputErr, displayErr, jsonErr, summary>>
  BY DEF CliInv, Exit, Leave, scanVars, contractVars, inputVars
<1>2. OutTypes' /\ VerdictInv' /\ LinesInv'
  BY <1>1, LinesStay DEF Verified, Ending, Early, Scanning
<1>3. CountInv' /\ WrittenInv' /\ GroupsInv' /\ SummaryInv'
  BY <1>1 DEF CountInv, WrittenInv, GroupsInv, SummaryInv
<1>4. OutputExact'
  <2> SUFFICES ASSUME ~WriteFailed
               PROVE  /\ \A i \in Items :
                           Len(written[i]) = IF \/ i \in Collected({"encrypted"})
                                                \/ ~Grouped /\ i \in Selected THEN 1 ELSE 0
                      /\ groups = IF ~Grouped THEN {} ELSE GroupsExact
                      /\ summary.matched = Cardinality(Selected)
                      /\ summary.unique = Cardinality({holds[i] : i \in Selected})
                      /\ summary.duplicates = summary.matched - summary.unique
    <3>1. Completed' => ~WriteFailed
      BY <1>1 DEF Completed, WriteFailed
    <3>2. /\ Selected' = Selected /\ (Grouped' <=> Grouped)
          /\ Collected({"encrypted"})' = Collected({"encrypted"})
      BY <1>1, SelectionStays, MatchesStays
    <3> QED
      BY <1>1, <3>1, <3>2 DEF OutputExact, GroupsExact
  <2>1. \A i \in Items : Due(i) <=> \/ i \in Collected({"encrypted"})
                                    \/ ~Grouped /\ i \in Selected
    BY <1>1, AllSeen, SelectedFacts DEF Due, Ending
  <2>2. \A i \in Items : Len(written[i]) = IF Due(i) THEN 1 ELSE 0
    BY <1>1 DEF OutInv, WrittenInv
  <2>3. groups = IF ~Grouped THEN {} ELSE GroupsExact
    BY <1>1, GroupsFacts DEF OutInv, GroupsInv, Printed
  <2> QED
    BY <1>1, <2>1, <2>2, <2>3 DEF OutInv, SummaryInv
<1> QED
  BY <1>2, <1>3, <1>4 DEF OutInv

\* A callback with -verify, or behind a failed write, leaves the certificate alone.
LEMMA OnCertificateOut == CliInv /\ PlaceInv' /\ OutInv /\ OnCertificate => OutInv'
<1> SUFFICES ASSUME CliInv, PlaceInv', OutInv, OnCertificate PROVE OutInv'
  OBVIOUS
<1>1. /\ CliTypes /\ PlaceInv /\ None \notin Items
      /\ place = "callback" /\ place' = "scan" /\ item' = None
      /\ holds[item] \in Certificates
      /\ UNCHANGED <<collected, options, holds, clock, todo, verdict, groups, summary, jsonErr>>
  BY CliAssumption DEF CliInv, OnCertificate, inputVars
<1>2. /\ \A contents : Collected(contents)' = Collected(contents)
      /\ \A contents : None \notin Collected(contents)
      /\ item \in Items /\ item \in Collected(Certificates)
      /\ item \notin Collected({"encrypted"})
  <2>1. \A contents : Collected(contents)' = Collected(contents)
    BY <1>1, SelectionStays
  <2>2. item \in Items /\ collected[item] = 1
    BY <1>1 DEF PlaceInv
  <2> QED
    BY <1>1, <2>1, <2>2 DEF Collected, Certificates
<1>3. Pending' = Pending
  BY <1>1, <1>2 DEF Pending
<1>4. CASE options.verify \/ outputErr
  <2>1. UNCHANGED <<written, displayErr, outputErr, identityCounts>>
    BY <1>4 DEF OnCertificate, NoEmit
  <2>2. OutTypes' /\ VerdictInv' /\ LinesInv'
    BY <1>1, <2>1, LinesStay DEF Verified, Ending, Early, Scanning
  <2>3. CASE options.verify
    <3>1. Seen' = Seen
      BY <1>1, <1>2, <2>3 DEF Seen, Ahead, Scanning
    <3>2. CountInv' /\ WrittenInv'
      BY <1>1, <1>3, <2>1, <3>1, CountsStay DEF OutInv, WriteFailed
    <3> QED
      BY <1>1, <2>1, <2>2, <3>2 DEF OutInv, GroupsInv, SummaryInv, OutputExact,
         Completed, PlaceInv, WriteFailed, Printed
  <2>4. CASE outputErr
    BY <1>1, <2>1, <2>2, <2>4 DEF OutInv, CountInv, WrittenInv, GroupsInv, SummaryInv,
       OutputExact, Completed, WriteFailed
  <2> QED
    BY <1>4, <2>3, <2>4
<1>5. CASE ~options.verify /\ ~outputErr
  <2>1. LookAt(item)
    BY <1>5 DEF OnCertificate
  <2>2. item \notin Seen /\ Seen' = Seen \cup {item}
    BY <1>1, <1>2, <1>5 DEF Seen, Ahead
  <2>3. place \notin Printed /\ place' \notin Printed /\ place # "ended" /\ place' # "ended"
    BY <1>1 DEF Printed
  <2> QED
    BY <1>1, <1>2, <1>3, <1>5, <2>1, <2>2, <2>3, LookOut
<1> QED
  BY <1>4, <1>5

\* Each verified certificate is looked at once.
LEMMA LookAtVerifiedOut == CliInv /\ PlaceInv' /\ OutInv /\ LookAtVerified => OutInv'
<1> SUFFICES ASSUME CliInv, PlaceInv', OutInv, LookAtVerified PROVE OutInv'
  OBVIOUS
<1>1. PICK i \in todo : LookAt(i) /\ todo' = todo \ {i}
  BY DEF LookAtVerified
<1>2. /\ CliTypes /\ PlaceInv
      /\ place = "look" /\ place' = place /\ ~outputErr
      /\ UNCHANGED <<collected, options, holds, clock, item, verdict, groups, jsonErr, summary>>
  BY DEF CliInv, LookAtVerified, scanVars, contractVars, inputVars
<1>3. /\ options.verify /\ todo \subseteq Collected(Certificates)
      /\ \A contents : Collected(contents)' = Collected(contents)
  BY <1>2, SelectionStays DEF PlaceInv
<1>4. /\ i \in Collected(Certificates) /\ i \notin Seen
      /\ Seen' = Seen \cup {i} /\ Pending' = Pending
  BY <1>1, <1>2, <1>3 DEF Seen, Ahead, Scanning, Pending
<1>5. /\ place \notin Printed /\ place' \notin Printed /\ place # "ended" /\ place' # "ended"
      /\ place \in Verified /\ place' \in Verified
  BY <1>2 DEF Printed, Verified
<1> QED
  BY <1>1, <1>2, <1>4, <1>5, LookOut

\* An encrypted PKCS#12 content is printed in its callback.
LEMMA OnEncryptedOut == CliInv /\ PlaceInv' /\ OutInv /\ OnPKCS12Encrypted => OutInv'
<1> SUFFICES ASSUME CliInv, PlaceInv', OutInv, OnPKCS12Encrypted PROVE OutInv'
  OBVIOUS
<1>1. /\ CliTypes /\ OutTypes /\ PlaceInv /\ None \notin Items
      /\ place = "callback" /\ place' = "scan" /\ item' = None
      /\ holds[item] = "encrypted"
      /\ UNCHANGED <<collected, options, holds, clock, todo, verdict>>
      /\ UNCHANGED <<identityCounts, groups, summary, jsonErr>>
  BY CliAssumption DEF CliInv, OutInv, OnPKCS12Encrypted, inputVars
<1>2. /\ \A contents : Collected(contents)' = Collected(contents)
      /\ \A contents : None \notin Collected(contents)
      /\ item \in Items /\ item \notin Collected(Certificates)
      /\ item \in Collected({"encrypted"})
  <2>1. \A contents : Collected(contents)' = Collected(contents)
    BY <1>1, SelectionStays
  <2>2. item \in Items /\ collected[item] = 1
    BY <1>1 DEF PlaceInv
  <2> QED
    BY <1>1, <2>1, <2>2 DEF Collected, Certificates
<1>3. Pending' = Pending \cup {item} /\ item \notin Pending
  BY <1>1, <1>2 DEF Pending
<1>4. Seen' = Seen /\ item \notin Seen
  BY <1>1, <1>2 DEF Seen, Ahead, Scanning
<1>5. IF outputErr THEN NoEmit ELSE Emit(item)
  BY DEF OnPKCS12Encrypted
<1>6. (outputErr => outputErr') /\ (displayErr => displayErr')
  BY <1>1, <1>5, EmitFacts DEF CliTypes
<1>7. VerdictInv' /\ GroupsInv' /\ SummaryInv' /\ OutputExact'
  <2>1. place \notin Printed /\ place' \notin Printed /\ place # "ended" /\ place' # "ended"
        /\ place' \notin Verified
    BY <1>1 DEF Printed, Verified, Ending
  <2> QED
    BY <1>1, <1>6, <2>1, WriteOut
<1>8. /\ written' \in [Items -> Seq(Lines)]
      /\ \A j \in Items : j # item => written'[j] = written[j]
      /\ Emit(item) /\ ~outputErr' /\ ~displayErr' =>
           Len(written'[item]) = IF options.format = "json" THEN Len(written[item])
                                 ELSE Len(written[item]) + 1
  BY <1>1, <1>2, <1>5, EmitLines
<1>9. OutTypes'
  BY <1>1, <1>8 DEF OutTypes
<1>10. LinesInv'
  <2> SUFFICES ASSUME NEW j \in Items, holds[j] \in Certificates PROVE LinesOf(j)'
    BY <1>1 DEF LinesInv
  <2>1. j # item
    BY <1>1 DEF Certificates
  <2>2. /\ LinesOf(j) /\ written'[j] = written[j]
        /\ clock \in Nat /\ clock' = clock /\ clock >= clock
    BY <1>1, <1>8, <2>1 DEF OutInv, LinesInv, OutTypes
  <2>3. place \in Early
    BY <1>1 DEF Early, Scanning
  <2> QED
    BY <1>1, <2>2, <2>3, LineKept
<1>11. (\A c : Matches(c)' <=> Matches(c)) /\ (Grouped' <=> Grouped)
  BY <1>1, MatchesStays
<1>12. CountInv'
  <2> SUFFICES ASSUME ~outputErr', NEW c \in Certificates
               PROVE  identityCounts[c] =
                        Cardinality({k \in Seen' : holds[k] = c /\ Matches(c)'})
    BY <1>1 DEF CountInv
  <2>1. {k \in Seen' : holds[k] = c /\ Matches(c)'} = {k \in Seen : holds[k] = c /\ Matches(c)}
    BY <1>4, <1>11
  <2>2. ~outputErr
    BY <1>6
  <2> QED
    BY <1>1, <2>1, <2>2 DEF OutInv, CountInv
<1>13. WrittenInv'
  <2> SUFFICES ASSUME ~WriteFailed', NEW j \in Items
               PROVE  Len(written'[j]) =
                        IF Due(j)' /\ options.format # "json" THEN 1 ELSE 0
    BY <1>1 DEF WrittenInv
  <2>1. ~WriteFailed /\ ~outputErr' /\ ~displayErr' /\ ~outputErr
    BY <1>1, <1>6 DEF WriteFailed
  <2>2. Len(written[j]) = IF Due(j) /\ options.format # "json" THEN 1 ELSE 0
    BY <1>1, <2>1 DEF OutInv, WrittenInv
  <2>3. CASE j # item
    <3>1. Due(j)' <=> Due(j)
      BY <1>1, <1>3, <1>4, <1>11, <2>3 DEF Due
    <3> QED
      BY <1>8, <2>2, <2>3, <3>1
  <2>4. CASE j = item
    <3>1. ~Due(j)
      BY <1>3, <1>4, <2>4 DEF Due
    <3>2. Due(j)'
      BY <1>3, <2>4 DEF Due
    <3>3. Emit(item) /\ Len(written[item]) = 0
      BY <1>5, <2>1, <2>2, <2>4, <3>1
    <3>4. Len(written'[item]) = IF options.format = "json" THEN 0 ELSE 1
      BY <1>8, <2>1, <3>3
    <3> QED
      BY <2>4, <3>2, <3>4
  <2> QED
    BY <2>3, <2>4
<1> QED
  BY <1>7, <1>9, <1>10, <1>12, <1>13 DEF OutInv

\* At first nothing is printed and nothing counted.
LEMMA InitOut == CliInit => OutInv
<1> SUFFICES ASSUME CliInit PROVE OutInv
  OBVIOUS
<1>1. /\ place = "roots" /\ clock = 0 /\ exit = -1
      /\ collected = [i \in Items |-> 0]
      /\ verdict = [i \in Items |-> "none"]
      /\ identityCounts = [c \in Certificates |-> 0]
      /\ written = [i \in Items |-> <<>>] /\ groups = {}
  BY DEF CliInit, ContractInit
<1>2. OutTypes
  BY <1>1 DEF OutTypes, Statuses
<1>3. VerdictInv
  BY <1>1 DEF VerdictInv, Verified, Ending
<1>4. \A i \in Items : Len(written[i]) = 0 /\ 1 .. Len(written[i]) = {} /\ written[i] = <<>>
  <2>1. \A i \in Items : written[i] = <<>>
    BY <1>1
  <2>2. Len(<<>>) = 0 /\ 1 .. 0 = {}
    OBVIOUS
  <2> QED
    BY <2>1, <2>2
<1>5. LinesInv
  BY <1>4 DEF LinesInv, LinesOf
<1>6. \A contents : Collected(contents) = {}
  BY <1>1 DEF Collected
<1>7. Seen = {} /\ Pending = {}
  BY <1>6 DEF Seen, Pending
<1>8. CountInv
  <2> SUFFICES ASSUME NEW c \in Certificates
               PROVE  identityCounts[c] = Cardinality({i \in Seen : holds[i] = c /\ Matches(c)})
    BY DEF CountInv
  <2>1. {i \in Seen : holds[i] = c /\ Matches(c)} = {} /\ Cardinality({}) = 0
    BY <1>7, FS_EmptySet
  <2> QED
    BY <1>1, <2>1
<1>9. WrittenInv
  BY <1>1, <1>4, <1>7 DEF WrittenInv, Due
<1>10. GroupsInv /\ SummaryInv /\ OutputExact
  BY <1>1 DEF GroupsInv, SummaryInv, OutputExact, Completed, Printed
<1> QED
  BY <1>2, <1>3, <1>5, <1>8, <1>9, <1>10 DEF OutInv

\* Every step keeps the output right.
LEMMA OutStepInv == CliInv /\ CliInv' /\ OutInv /\ [CliNext]_cliVars => OutInv'
<1> SUFFICES ASSUME CliInv, CliInv', OutInv, [CliNext]_cliVars PROVE OutInv'
  OBVIOUS
<1>1. PlaceInv'
  BY DEF CliInv
<1>2. CASE Interrupt \/ UNCHANGED cliVars
  <2>1. /\ UNCHANGED <<collected, options, holds, clock, place, item, todo>>
        /\ UNCHANGED <<verdict, identityCounts, written, groups, summary, outputErr, displayErr>>
        /\ UNCHANGED <<jsonErr, refused, exit, status>>
    BY <1>2 DEF Interrupt, CancelScan, inputVars, cliVars, contractVars
  <2> QED
    BY <2>1, SameOut
<1>3. CASE Idle
  BY <1>1, <1>3, IdleSteps, IdleOut
<1> QED
  BY <1>1, <1>2, <1>3, OnCertificateOut, OnEncryptedOut, VerifyOut, LookAtVerifiedOut,
     PrintGroupsOut, StopOut, PrintJSONOut, ExitOut
  DEF CliNext, Idle

-----------------------------------------------------------------------------
(* The theorems about the output.                                          *)

\* The lines, counts and groups are right from the options to the exit status.
THEOREM OutInvariance == CliSpec => []OutInv
<1>1. CliInit => OutInv
  BY InitOut
<1>2. CliInv /\ CliInv' /\ OutInv /\ [CliNext]_cliVars => OutInv'
  BY OutStepInv
<1> QED
  BY <1>1, <1>2, CliInvariance, PTL DEF CliSpec

\* run(), its callbacks, printing of groups and of the JSON document: when no write, root,
\* verification or scan failed, every selected certificate and every encrypted
\* PKCS#12 content that Scan delivered is printed exactly once, in every format and
\* identity mode, and summarizeCertificateIdentities counts just those.
THEOREM OutputCorrect == CliSpec => []OutputExact
<1>1. OutInv => OutputExact
  BY DEF OutInv
<1> QED
  BY <1>1, OutInvariance, PTL

\* certificateExpiresWithin, VerifyCertificates and ValidityStatus judge a certificate
\* at three moments, and contradict each other only where it ends at the instant
\* run() begins or during the run.
THEOREM ExpiryAgreement == CliSpec => []ExpiryAgrees
<1>1. CliInv /\ OutInv => ExpiryAgrees
  <2> SUFFICES ASSUME CliInv, OutInv,
                      NEW i \in Items, holds[i] \in Certificates, NEW n \in DOMAIN written[i]
               PROVE  LET printed == written[i][n].validity = "expired"
                      IN  /\ (written[i][n].verification = "expired") => printed
                          /\ (NotAfter[holds[i]] <= 0) # printed =>
                               NotAfter[holds[i]] \in {0} \cup 1 .. clock - 1
    BY DEF ExpiryAgrees
  <2>1. n \in 1 .. Len(written[i]) /\ clock \in Nat /\ NotAfter[holds[i]] \in Int
    BY CliAssumption, LenProperties DEF OutInv, OutTypes, NotAfter, Certificates
  <2>2. /\ written[i][n].verification = Verdict(i)
        /\ written[i][n].validity \in {"valid", "expired"}
        /\ written[i][n].validity = "expired" => NotAfter[holds[i]] < clock
        /\ written[i][n].validity = "valid" => NotAfter[holds[i]] >= 0
    BY <2>1 DEF OutInv, LinesInv, LinesOf
  <2>3. Verdict(i) = "expired" => NotAfter[holds[i]] < 0
    BY <2>1 DEF Verdict, VerificationStatus, ChainError
  <2> QED
    BY <2>1, <2>2, <2>3
<1> QED
  BY <1>1, CliInvariance, OutInvariance, PTL

\* VerifyCertificates, of the pool that it builds of all that Scan collected: the
\* verdict that is printed depends on what was found, and not on the order it was
\* found in, on the filters or on the format.
THEOREM VerdictsCorrect == CliSpec => []VerdictsExact
<1>1. OutInv => VerdictsExact
  <2> SUFFICES ASSUME OutInv, options.verify,
                      NEW i \in Items, NEW n \in DOMAIN written[i], holds[i] = "soon"
               PROVE  written[i][n].verification =
                        IF Collected({"issuer"}) # {} THEN "trusted" ELSE "missing-intermediate"
    BY DEF VerdictsExact
  <2>1. n \in 1 .. Len(written[i]) /\ holds[i] \in Certificates /\ NotAfter["soon"] = 1
    BY LenProperties DEF OutInv, OutTypes, NotAfter, Certificates
  <2>2. written[i][n].verification = Verdict(i)
    BY <2>1 DEF OutInv, LinesInv, LinesOf
  <2>3. "issuer" \in Intermediates(Collected(Certificates)) <=> Collected({"issuer"}) # {}
    BY DEF Intermediates, Collected, Certificates
  <2> QED
    BY <2>1, <2>2, <2>3 DEF Verdict, VerificationStatus, ChainError
<1> QED
  BY <1>1, OutInvariance, PTL

-----------------------------------------------------------------------------
(* run() and Scan.                                                         *)

\* Behind a failed write cancelled stays a flag.
FlagInv == cancelled \in BOOLEAN

\* run() and its callbacks use Scan as ScanContract has it, and as its caller may:
\* they cancel it only while it runs, for a failed write or a signal.
THEOREM ScanCalledAsPromised == CliSpec => ContractSpec
<1>1. CliInit => ContractInit /\ FlagInv
  BY DEF CliInit, ContractInit, FlagInv
<1>2. CliInv /\ FlagInv /\ [CliNext]_cliVars =>
        [ContractNext]_contractVars /\ FlagInv'
  <2> SUFFICES ASSUME CliInv, FlagInv, [CliNext]_cliVars
               PROVE  [ContractNext]_contractVars /\ FlagInv'
    OBVIOUS
  <2>1. CASE OnCertificate \/ OnPKCS12Encrypted
    <3>1. /\ place = "callback" /\ UNCHANGED <<collected, status>>
          /\ cancelled' = (cancelled \/ outputErr')
      BY <2>1 DEF OnCertificate, OnPKCS12Encrypted
    <3>2. status = "running"
      BY <3>1 DEF CliInv, PlaceInv, Scanning
    <3>3. cancelled' = cancelled \/ (~cancelled /\ cancelled' = TRUE)
      BY <3>1, Zenon DEF FlagInv
    <3> QED
      BY <3>1, <3>2, <3>3 DEF ContractNext, CancelScan, contractVars, FlagInv
  <2>2. CASE TakeOutcome
    BY <2>2 DEF TakeOutcome, Deliver, ContractNext, FlagInv
  <2>3. CASE Interrupt
    BY <2>3 DEF Interrupt, CancelScan, ContractNext, FlagInv
  <2>4. CASE ScanReturns
    BY <2>4 DEF ScanReturns, DeliverReport, DeliverError, ContractNext, FlagInv
  <2>5. CASE \/ LoadRoots \/ NoCallback \/ ProgressFails \/ Tick \/ CheckScan
             \/ VerifyCertificates \/ LookAtVerified \/ EndVerified \/ PrintGroups
             \/ Stop \/ PrintJSON \/ Exit \/ UNCHANGED cliVars
    <3>1. UNCHANGED contractVars
      BY <2>5 DEF LoadRoots, NoCallback, ProgressFails, Tick, CheckScan, VerifyCertificates,
         LookAtVerified, EndVerified, PrintGroups, Stop, PrintJSON, Exit, cliVars, scanVars
    <3> QED
      BY <3>1 DEF contractVars, FlagInv
  <2> QED
    BY <2>1, <2>2, <2>3, <2>4, <2>5 DEF CliNext
<1> QED
  BY <1>1, <1>2, CliInvariance, PTL DEF CliSpec, ContractSpec
=============================================================================
