------------------------------- MODULE CliRun -------------------------------
(***************************************************************************)
(* run() in main.go: one call of certfinder from its validated options to  *)
(* its exit status.  It calls scanner.Scan, of which it relies on nothing  *)
(* but ScanContract; the callbacks run in its own goroutine while Scan     *)
(* does.  Any write may fail: to stdout directly (JSON, JSON Lines) or     *)
(* through the display (text, and the progress on stderr), which swallows  *)
(* the error until the end.  The clock runs on meanwhile: instants count   *)
(* from the one run() takes for now.                                       *)
(***************************************************************************)
EXTENDS ScanContract, Integers, Sequences, FiniteSetsExt

CONSTANTS None,       \* no item
          LastInstant \* the run lasts no longer, in instants

ASSUME CliAssumption ==
  /\ IsFiniteSet(Items) /\ None \notin Items
  /\ LastInstant \in Nat

\* What an item of the walk turns out to hold: a certificate, an encrypted
\* PKCS#12 content, or an error.  Two certificates of the same name are the same
\* certificate in two places.  The roots have issued "issuer", which no usage or
\* host name selects, and all the others but "soon", which "issuer" has issued.
\* None is still to become valid.
Certificates == {"expired", "ending", "soon", "issuer"}
Contents == Certificates \cup {"encrypted", "error"}

NotAfter == [c \in Certificates |->
               CASE c = "expired" -> -1
                 [] c = "ending"  -> 0
                 [] c = "soon"    -> 1
                 [] c = "issuer"  -> LastInstant + 1]

\* The combinations run() does not refuse.  expiration: no filter, or -expired,
\* which is a duration of 0; failExpiring: no monitoring, -fail-expired, or a
\* duration of one instant.
Unset == -1
Options ==
  {o \in [format : {"text", "json", "jsonl"},
          identity : {"all", "unique", "duplicates"},
          expiration : {Unset, 0}, failExpiring : {Unset, 0, 1},
          verify : BOOLEAN, ignoreErrors : BOOLEAN] :
     o.format = "jsonl" => o.identity = "all"}

VARIABLES
  options,            \* fixed
  holds,              \* what each item holds, fixed
  clock,              \* time.Now(); now is 0
  place,              \* where run() is
  item,               \* the item whose outcome the callback is called with
  todo,               \* verified certificates still to be looked at
  verdict,            \* Verification.Status of each item's certificate
  identityCounts,     \* how often each certificate has matched
  finding,            \* operationalFinding
  written,            \* what was written of each item to stdout, one after another
  groups,             \* certificates written as a group to stdout
  outputErr,          \* a JSON Lines write has failed
  displayErr,         \* a write of the display has failed
  jsonErr,            \* history: the JSON write has failed
  refused,            \* history: loading the roots or verifying has failed
  summary,            \* the identity summary, <<>> before
  exit                \* the exit status, -1 before

cliVars == <<contractVars, options, holds, clock, place, item, todo, verdict,
             identityCounts, finding, written, groups, outputErr, displayErr, jsonErr, refused, summary,
             exit>>

inputVars == <<options, holds, clock>>
scanVars == <<contractVars, inputVars>>

Grouped == options.identity # "all"

\* Slips: the comparison asks the clock again instead of run()'s now; an end
\* that is reached is printed as passed.
RestlessExpiresWithin(c, duration) == NotAfter[c] <= clock + duration
HastyValidityStatus(c) == IF clock >= NotAfter[c] THEN "expired" ELSE "valid"

\* certificateExpiresWithin: reached means not after.
ExpiresWithin(c, duration) == NotAfter[c] <= duration

\* certificateMatches.
Matches(c) ==
  c # "issuer" /\ (options.expiration # Unset => ExpiresWithin(c, options.expiration))

\* ValidityStatus at the time of printing.
ValidityStatus(c) == IF clock > NotAfter[c] THEN "expired" ELSE "valid"

\* The items whose outcomes Scan has delivered and that hold one of these.
Collected(contents) == {i \in Items : collected[i] = 1 /\ holds[i] \in contents}

CliInit ==
  /\ ContractInit
  /\ options \in Options
  /\ holds \in [Items -> Contents]
  /\ clock = 0
  /\ place = "roots"
  /\ item = None
  /\ todo = {}
  /\ verdict = [i \in Items |-> "none"]
  /\ identityCounts = [c \in Certificates |-> 0]
  /\ finding = FALSE
  /\ written = [i \in Items |-> <<>>]
  /\ groups = {}
  /\ outputErr = FALSE /\ displayErr = FALSE /\ jsonErr = FALSE /\ refused = FALSE
  /\ summary = <<>>
  /\ exit = -1

\* run() returns.
Leave(status_) == exit' = status_ /\ place' = "ended"

\* What is written of an item now.
Line(i) ==
  IF holds[i] \in Certificates
    THEN [validity |-> ValidityStatus(holds[i]), verification |-> verdict[i]]
    ELSE [validity |-> "encrypted", verification |-> "none"]

\* One result goes to stdout: through the display, which writes nothing after
\* its first failure; as a line of JSON; or, in the JSON format, not now.
Emit(i) ==
  \/ /\ options.format = "json" \/ (options.format = "text" /\ displayErr)
     /\ UNCHANGED <<written, displayErr, outputErr>>
  \/ /\ options.format = "jsonl" \/ (options.format = "text" /\ ~displayErr)
     /\ written' = [written EXCEPT ![i] = Append(@, Line(i))]
     /\ UNCHANGED <<displayErr, outputErr>>
  \/ /\ options.format = "text" /\ ~displayErr
     /\ displayErr' = TRUE
     /\ UNCHANGED <<written, outputErr>>
  \/ /\ options.format = "jsonl"
     /\ outputErr' = TRUE
     /\ UNCHANGED <<written, displayErr>>

NoEmit == UNCHANGED <<written, displayErr, outputErr>>

\* A certificate that passes the filters is counted, monitored and, unless
\* certificates are grouped, printed; any other is passed over.
LookAt(i) ==
  IF Matches(holds[i])
    THEN /\ identityCounts' = [identityCounts EXCEPT ![holds[i]] = @ + 1]
         /\ finding' = (finding \/ (options.failExpiring # Unset /\
                                     ExpiresWithin(holds[i], options.failExpiring)))
         /\ IF Grouped THEN NoEmit ELSE Emit(i)
    ELSE NoEmit /\ UNCHANGED <<identityCounts, finding>>

\* The summary's counts: occurrences, certificates, occurrences beyond the first.
SummarizeIdentities ==
  LET counted == {c \in Certificates : identityCounts[c] > 0}
  IN  [matched    |-> MapThenSumSet(LAMBDA c : identityCounts[c], counted),
       unique     |-> Cardinality(counted),
       duplicates |-> MapThenSumSet(LAMBDA c : identityCounts[c] - 1, counted)]

-----------------------------------------------------------------------------
(* Slips, each in place of the definition it is named after.               *)

\* DiscardCertificates forgets that -verify needs the certificates.
ForgetfulKept ==
  IF options.format = "json" \/ Grouped THEN Collected(Certificates) ELSE {}

\* The display's error is reported after the JSON document is written.
DeafStop ==
  /\ place = "stop"
  /\ summary' = SummarizeIdentities
  /\ place' = "json"
  /\ UNCHANGED <<scanVars, item, todo, verdict, identityCounts, finding,
                 written, groups, outputErr, displayErr, jsonErr, refused,
                 exit>>

-----------------------------------------------------------------------------
(* Before and while Scan runs.                                             *)

\* loadVerificationRoots, which is called with -roots only.
LoadRoots ==
  /\ place = "roots"
  /\ \/ place' = "scan" /\ UNCHANGED <<refused, exit>>
     \/ options.verify /\ refused' = TRUE /\ Leave(1)
  /\ UNCHANGED <<scanVars, item, todo, verdict, identityCounts, finding,
                 written, groups, outputErr, displayErr, jsonErr, summary>>

\* Scan's collector takes up an outcome.
TakeOutcome ==
  /\ place = "scan"
  /\ \E i \in Items : Deliver(i) /\ item' = i
  /\ place' = "callback"
  /\ UNCHANGED <<inputVars, todo, verdict, identityCounts, finding, written,
                 groups, outputErr, displayErr, jsonErr, refused, summary,
                 exit>>

\* OnCertificate.  A failed JSON Lines write cancels the scan.
OnCertificate ==
  /\ place = "callback" /\ holds[item] \in Certificates
  /\ IF options.verify \/ outputErr
       THEN NoEmit /\ UNCHANGED <<identityCounts, finding>>
       ELSE LookAt(item)
  /\ cancelled' = (cancelled \/ outputErr')
  /\ place' = "scan" /\ item' = None
  /\ UNCHANGED <<collected, status>>
  /\ UNCHANGED <<inputVars, todo, verdict, groups, jsonErr, refused, summary,
                 exit>>

OnPKCS12Encrypted ==
  /\ place = "callback" /\ holds[item] = "encrypted"
  /\ IF outputErr THEN NoEmit ELSE Emit(item)
  /\ cancelled' = (cancelled \/ outputErr')
  /\ place' = "scan" /\ item' = None
  /\ UNCHANGED <<collected, status>>
  /\ UNCHANGED <<inputVars, todo, verdict, identityCounts, finding, groups,
                 jsonErr, refused, summary, exit>>

\* An outcome that is only an error has no callback.
NoCallback ==
  /\ place = "callback" /\ holds[item] = "error"
  /\ place' = "scan" /\ item' = None
  /\ UNCHANGED <<scanVars, todo, verdict, identityCounts, finding, written,
                 groups, outputErr, displayErr, jsonErr, refused, summary,
                 exit>>

\* A signal ends the context; once Scan has returned run() does not look at it.
Interrupt ==
  /\ CancelScan
  /\ UNCHANGED <<inputVars, place, item, todo, verdict, identityCounts,
                 finding, written, groups, outputErr, displayErr, jsonErr,
                 refused, summary, exit>>

\* The header or a status line cannot be written.
ProgressFails ==
  /\ place \notin {"json", "exit", "ended"}
  /\ displayErr' = TRUE
  /\ UNCHANGED <<scanVars, place, item, todo, verdict, identityCounts,
                 finding, written, groups, outputErr, jsonErr, refused,
                 summary, exit>>

\* Time passes.
Tick ==
  /\ place # "ended" /\ clock < LastInstant
  /\ clock' = clock + 1
  /\ UNCHANGED <<contractVars, options, holds, place, item, todo, verdict,
                 identityCounts, finding, written, groups, outputErr,
                 displayErr, jsonErr, refused, summary, exit>>

ScanReturns ==
  /\ place = "scan"
  /\ DeliverReport \/ DeliverError
  /\ place' = "returned"
  /\ UNCHANGED <<inputVars, item, todo, verdict, identityCounts, finding,
                 written, groups, outputErr, displayErr, jsonErr, refused,
                 summary, exit>>

-----------------------------------------------------------------------------
(* After Scan has returned.                                                *)

\* report.Certificates, unless Scan was told to discard them.
Kept == IF options.format = "json" \/ Grouped \/ options.verify
        THEN Collected(Certificates) ELSE {}

CheckScan ==
  /\ place = "returned"
  /\ IF outputErr \/ status = "error" THEN Leave(1)
     ELSE /\ place' = IF options.verify THEN "verify" ELSE "group"
          /\ exit' = exit
  /\ UNCHANGED <<scanVars, item, todo, verdict, identityCounts, finding,
                 written, groups, outputErr, displayErr, jsonErr, refused,
                 summary>>

\* x509.Certificate.Verify, of which only these outcomes are modelled: the
\* certificate's own validity first, then a chain to the roots through the
\* intermediates.
ChainError(c, intermediates) ==
  IF NotAfter[c] < 0 THEN "expired"
  ELSE IF c = "soon" /\ "issuer" \notin intermediates THEN "unknown authority"
  ELSE "none"

\* describeVerification and classifyVerificationError.
VerificationStatus(c, chainError) ==
  CASE chainError = "none"  -> "trusted"
    [] chainError # "none" /\ NotAfter[c] < 0 -> "expired"
    [] chainError # "none" /\ NotAfter[c] >= 0 -> "missing-intermediate"

\* A slip: only what the filters select.
SelectiveIntermediates(kept) == {holds[j] : j \in {i \in kept : Matches(holds[i])}}

\* Every certificate kept is an intermediate for all the others, whether or not
\* the filters select it.
Intermediates(kept) == {holds[j] : j \in kept}

VerifyCertificates ==
  /\ place = "verify"
  /\ \/ /\ todo' = Kept
        /\ verdict' = [i \in Items |->
             IF i \in Kept
               THEN VerificationStatus(holds[i],
                      ChainError(holds[i], Intermediates(Kept)))
               ELSE "none"]
        /\ place' = "look" /\ UNCHANGED <<refused, exit>>
     \/ refused' = TRUE /\ Leave(1) /\ UNCHANGED <<todo, verdict>>
  /\ UNCHANGED <<scanVars, item, identityCounts, finding, written, groups,
                 outputErr, displayErr, jsonErr, summary>>

LookAtVerified ==
  /\ place = "look" /\ ~outputErr
  /\ \E i \in todo : LookAt(i) /\ todo' = todo \ {i}
  /\ UNCHANGED <<scanVars, verdict, place, item, groups, jsonErr, refused,
                 summary, exit>>

EndVerified ==
  /\ place = "look" /\ (todo = {} \/ outputErr)
  /\ IF outputErr THEN Leave(1) ELSE place' = "group" /\ exit' = exit
  /\ UNCHANGED <<scanVars, item, todo, verdict, identityCounts, finding,
                 written, groups, outputErr, displayErr, jsonErr, refused,
                 summary>>

\* The groups to print: with -duplicates those of more than one location.
Groups == {c \in Certificates :
             /\ Matches(c)
             /\ Cardinality({i \in Kept : holds[i] = c}) >=
                  (IF options.identity = "duplicates" THEN 2 ELSE 1)}

PrintGroups ==
  /\ place = "group"
  /\ IF Grouped /\ options.format = "text" /\ ~displayErr
       THEN \/ groups' = Groups /\ displayErr' = displayErr
            \/ displayErr' = TRUE /\ groups' \in SUBSET Groups \ {Groups}
       ELSE UNCHANGED <<groups, displayErr>>
  /\ place' = "stop"
  /\ UNCHANGED <<scanVars, item, todo, verdict, identityCounts, finding,
                 written, outputErr, jsonErr, refused, summary, exit>>

\* Stop prints the summary, Err tells whether all the display's writes went well.
Stop ==
  /\ place = "stop"
  /\ summary' = SummarizeIdentities
  /\ IF displayErr THEN Leave(1) ELSE place' = "json" /\ exit' = exit
  /\ UNCHANGED <<scanVars, item, todo, verdict, identityCounts, finding,
                 written, groups, outputErr, displayErr, jsonErr, refused>>

\* The JSON document is written at once, in the JSON format.
PrintJSON ==
  /\ place = "json"
  /\ \/ /\ options.format = "json"
        /\ written' = [i \in Items |->
             IF i \in Collected({"encrypted"})
                  \/ (~Grouped /\ i \in Kept /\ Matches(holds[i]))
             THEN <<Line(i)>> ELSE <<>>]
        /\ groups' = IF Grouped THEN Groups ELSE {}
        /\ place' = "exit" /\ UNCHANGED <<jsonErr, exit>>
     \/ /\ options.format = "json"
        /\ jsonErr' = TRUE /\ Leave(1) /\ UNCHANGED <<written, groups>>
     \/ /\ options.format # "json"
        /\ place' = "exit" /\ UNCHANGED <<written, groups, jsonErr, exit>>
  /\ UNCHANGED <<scanVars, item, todo, verdict, identityCounts, finding,
                 outputErr, displayErr, refused, summary>>

\* Path errors take precedence over a finding.
Exit ==
  /\ place = "exit"
  /\ Leave(IF Collected({"error"}) # {} /\ ~options.ignoreErrors THEN 1
           ELSE IF finding THEN 3
           ELSE 0)
  /\ UNCHANGED <<scanVars, item, todo, verdict, identityCounts, finding,
                 written, groups, outputErr, displayErr, jsonErr, refused,
                 summary>>

CliNext ==
  \/ LoadRoots \/ TakeOutcome \/ OnCertificate \/ OnPKCS12Encrypted \/ NoCallback
  \/ Interrupt \/ Tick \/ ProgressFails \/ ScanReturns
  \/ CheckScan \/ VerifyCertificates \/ LookAtVerified \/ EndVerified
  \/ PrintGroups \/ Stop \/ PrintJSON \/ Exit
  \/ place = "ended" /\ UNCHANGED cliVars

CliSpec == CliInit /\ [][CliNext]_cliVars

-----------------------------------------------------------------------------
(* Properties.                                                             *)

WriteFailed == outputErr \/ displayErr \/ jsonErr

\* Reference: what Scan delivered that the filters select, at run()'s now.
Selected ==
  {i \in Collected(Certificates \ {"issuer"}) :
     options.expiration = 0 => NotAfter[holds[i]] <= 0}

\* The exit status says what happened, as the README has it: 1 when Scan, the
\* roots, the verification, any write, or a path that is not ignored failed, at
\* whatever moment and in whatever order; else 3 when a selected certificate had
\* reached the monitoring threshold when the run began, however long it took;
\* else 0.
StatusExact ==
  exit # -1 =>
    exit = IF \/ refused \/ status = "error" \/ WriteFailed
              \/ Collected({"error"}) # {} /\ ~options.ignoreErrors THEN 1
           ELSE IF options.failExpiring # Unset
                   /\ \E i \in Selected : NotAfter[holds[i]] <= options.failExpiring THEN 3
           ELSE 0

Completed == exit # -1 /\ status = "report" /\ ~refused /\ ~WriteFailed

\* When nothing failed the output is exactly what Scan delivered: every
\* selected certificate once, on its own or as a member of its one group, and
\* every encrypted PKCS#12 content once, in every format and identity mode, with
\* and without -verify; and the summary counts just those, once each.
OutputExact ==
  Completed =>
    /\ \A i \in Items :
         Len(written[i]) = IF \/ i \in Collected({"encrypted"})
                              \/ ~Grouped /\ i \in Selected THEN 1 ELSE 0
    /\ groups = IF ~Grouped THEN {}
                ELSE {holds[i] : i \in
                       {k \in Selected : options.identity = "duplicates" =>
                          \E j \in Selected \ {k} : holds[j] = holds[k]}}
    /\ summary.matched = Cardinality(Selected)
    /\ summary.unique = Cardinality({holds[i] : i \in Selected})
    /\ summary.duplicates = summary.matched - summary.unique

\* The three judgements of one certificate's time, made at different moments and
\* by different comparisons, contradict each other only where they must: what
\* -expired selects and -fail-expired counts, what -verify calls expired, and
\* what is printed as expired differ for a certificate that ends at the very
\* instant run() begins or during the run, and for no other.
ExpiryAgrees ==
  \A i \in Items : \A n \in DOMAIN written[i] :
    LET c == holds[i]
        printed == written[i][n].validity = "expired"
    IN  c \in Certificates =>
          /\ (written[i][n].verification = "expired") => printed
          /\ (NotAfter[c] <= 0) # printed => NotAfter[c] \in {0} \cup 1 .. clock - 1

\* With -verify the verdict on a certificate depends on what was found, never on
\* the order it was found in, on the filters or on the output format: it is
\* trusted through an issuer found anywhere in the tree, even one the filters
\* hide.
VerdictsExact ==
  options.verify =>
    \A i \in Items : \A n \in DOMAIN written[i] :
      holds[i] = "soon" =>
        written[i][n].verification =
          IF Collected({"issuer"}) # {} THEN "trusted" ELSE "missing-intermediate"

\* After a failed write nothing else goes to stdout; a failed write to stderr
\* does not stop JSON Lines.
NoOutputAfterFailure ==
  [][outputErr \/ (displayErr /\ options.format # "jsonl") =>
       UNCHANGED <<written, groups>>]_cliVars
=============================================================================
