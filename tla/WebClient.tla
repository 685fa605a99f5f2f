----------------------------- MODULE WebClient -----------------------------
(***************************************************************************)
(* A user's browser: the form that creates a swap, the IndexedDB store     *)
(* with its keys, the pages (tabs) whose SwapInTracker or SwapOutTracker   *)
(* polls the server and spends the contract, and the history page, which   *)
(* deletes, exports and imports.  The tabs share the store; an update of   *)
(* it is a get and a put in two transactions.  A step is the code between  *)
(* two awaits.                                                             *)
(***************************************************************************)
EXTENDS Naturals, SwapStatus

CONSTANT Users   \* the scenarios of this instance

(* One behaviour has one user: the kind of the swap, the pages that may be *)
(* open on it, and bounds on the requests that fail or whose answer is     *)
(* lost, on the pages that are closed or reloaded, and on the deletions.   *)
UserKinds ==
    [ kind : {"in", "out"}, tabs : SUBSET Nat,
      faults : Nat, closes : Nat, deletes : Nat ]

ASSUME WebClientAssumption == Users \subseteq UserKinds

VARIABLES
    user,     \* the scenario of this behaviour
    form,     \* SwapForm.createSwap
    row,      \* the swap in the store of this browser
    file,     \* ... and in a backup
    tab,      \* the tracker of each page
    server,   \* the server's swap, as GET /swap/:kind/:id answers
    paid,     \* the user sent the money
    spend,    \* the user's claim or refund
    faults, closes, deletes

userVars == <<user, form, file, paid, deletes>>
webVars == <<userVars, row, tab, server, spend, faults, closes>>

NoRow == [status |-> "NONE", requested |-> FALSE, keys |-> FALSE]
Closed == [pc |-> "closed", found |-> "NONE", next |-> NoRow,
           shown |-> "nothing", address |-> FALSE]

kind == user.kind
Tabs == user.tabs
Pages == UNION {u.tabs : u \in Users}

(* When the tracker spends the contract.                                   *)
Spendable == IF kind = "in" THEN "CONTRACT_EXPIRED" ELSE "CONTRACT_FUNDED"

WebInit ==
    /\ user \in Users
    /\ form = "editing"
    /\ row = NoRow /\ file = NoRow
    /\ tab = [t \in Pages |-> Closed]
    /\ server = At("NONE")
    /\ paid = FALSE
    /\ spend = "none"
    /\ faults = 0 /\ closes = 0 /\ deletes = 0

Fault == faults < user.faults /\ faults' = faults + 1

-----------------------------------------------------------------------------
(* The form.                                                               *)

(* POST /swap/:kind, with the public key of a new pair.                    *)
CreateSwap ==
    /\ form = "editing"
    /\ server' = At("CREATED")
    /\ \/ form' = "answered" /\ UNCHANGED faults
       \/ form' = "failed" /\ Fault
    /\ UNCHANGED <<user, row, file, tab, paid, spend, closes, deletes>>

(* The answer and the keys, as they are stored.                            *)
LocalSwap == [status |-> "CREATED", requested |-> FALSE, keys |-> TRUE]

(* The keys are stored before the page with the contract is shown.         *)
Persist ==
    /\ form = "answered"
    /\ \/ /\ form' = "stored" /\ UNCHANGED faults
          /\ row' = LocalSwap
       \/ form' = "failed" /\ Fault /\ UNCHANGED row
    /\ UNCHANGED <<user, file, tab, server, paid, spend, closes, deletes>>

(* SwapInDetails and SwapOutDetails: a tracker polls at once and then      *)
(* every 1.5 seconds.                                                      *)
OpenTab(t) == tab' = [tab EXCEPT ![t] = [Closed EXCEPT !.pc = "idle"]]

Navigate(t) ==
    /\ form = "stored" /\ tab[t].pc = "closed"
    /\ form' = "done"
    /\ OpenTab(t)
    /\ UNCHANGED <<user, row, file, server, paid, spend, faults, closes, deletes>>

-----------------------------------------------------------------------------
(* The history.                                                            *)

OpenFromHistory(t) ==
    /\ tab[t].pc = "closed" /\ row # NoRow
    /\ OpenTab(t)
    /\ UNCHANGED <<userVars, row, server, spend, faults, closes>>

CloseTab(t) ==
    /\ tab[t].pc # "closed" /\ closes < user.closes
    /\ closes' = closes + 1
    /\ tab' = [tab EXCEPT ![t] = Closed]
    /\ UNCHANGED <<userVars, row, server, spend, faults>>

DeleteSwap ==
    /\ row # NoRow /\ deletes < user.deletes
    /\ deletes' = deletes + 1
    /\ row' = NoRow
    /\ UNCHANGED <<user, form, file, tab, server, paid, spend, faults, closes>>

(* Bound: one backup.                                                      *)
Export ==
    /\ row # NoRow /\ file = NoRow /\ user.deletes > 0
    /\ file' = row
    /\ UNCHANGED <<user, form, row, tab, server, paid, spend, faults, closes, deletes>>

(* A swap that is there is kept.                                           *)
restoreBackup(backup) == IF row = NoRow THEN backup ELSE row

Import ==
    /\ file # NoRow
    /\ row' = restoreBackup(file)
    /\ UNCHANGED <<userVars, tab, server, spend, faults, closes>>

-----------------------------------------------------------------------------
(* The trackers.  refreshing keeps the polls of one page apart, and is     *)
(* reset however a poll ends.                                              *)

Goto(t, pc) == tab' = [tab EXCEPT ![t].pc = pc]

(* mutant: refreshing stays set after an error.                            *)
PollStaysRefreshing(t) ==
    tab' = [tab EXCEPT ![t] = [@ EXCEPT !.pc = "stuck", !.found = "NONE", !.next = NoRow]]

(* safeRefresh and the catch of refresh: whatever throws, the next poll    *)
(* starts again.                                                           *)
PollEnds(t) ==
    tab' = [tab EXCEPT ![t] = [@ EXCEPT !.pc = "idle", !.found = "NONE", !.next = NoRow]]

(* mutant: the poll stops as soon as the server answers DONE.              *)
FindStopsAtDone(t) ==
    /\ tab[t].pc = "idle"
    /\ tab' = [tab EXCEPT ![t] =
         IF server.status = "DONE" THEN Closed
         ELSE [@ EXCEPT !.pc = "get", !.found = server.status]]
    /\ UNCHANGED <<userVars, row, server, spend, faults, closes>>

Find(t) ==
    /\ tab[t].pc = "idle"
    /\ \/ /\ tab' = [tab EXCEPT ![t].pc = "get", ![t].found = server.status]
          /\ UNCHANGED faults
       \/ Fault /\ PollEnds(t)
    /\ UNCHANGED <<userVars, row, server, spend, closes>>

(* mutant: an update of a deleted swap stores what is new.                 *)
MergesOntoNothing(t, pc, then, merged) ==
    /\ tab[t].pc = pc
    /\ tab' = [tab EXCEPT ![t].pc = then, ![t].found = "NONE", ![t].next = merged]
    /\ UNCHANGED <<userVars, row, server, spend, faults, closes>>

(* LocalSwapStorageService.update: the row is read, merged with what is    *)
(* new...                                                                  *)
UpdateGet(t, pc, then, merged) ==
    /\ tab[t].pc = pc
    /\ IF row = NoRow
         THEN PollEnds(t)
         ELSE tab' = [tab EXCEPT ![t].pc = then, ![t].found = "NONE", ![t].next = merged]
    /\ UNCHANGED <<userVars, row, server, spend, faults, closes>>

(* ... and written, over what another page or the user did in between.     *)
UpdatePut(t, pc, then) ==
    /\ tab[t].pc = pc
    /\ row' = tab[t].next
    /\ tab' = [tab EXCEPT ![t].pc = then, ![t].next = NoRow]
    /\ UNCHANGED <<userVars, server, spend, faults, closes>>

UpdateStatusGet(t) ==
    UpdateGet(t, "get", "put", [row EXCEPT !.status = tab[t].found])
UpdateStatusPut(t) == UpdatePut(t, "put", "find")

(* refundRequestDate, claimRequestDate.                                    *)
UpdateDateGet(t) ==
    UpdateGet(t, "dateGet", "datePut", [row EXCEPT !.requested = TRUE])
UpdateDatePut(t) == UpdatePut(t, "datePut", "idle")

(* What a page lets the user do about a swap in this state.                *)
Offer(r) ==
    CASE r.status = "CREATED" -> "payment"
      [] kind = "in" /\ r.status = "CONTRACT_EXPIRED" /\ ~r.requested -> "refund"
      [] OTHER -> "nothing"

(* The page shows the row as it is now, and the tracker acts on it.        *)
FindById(t) ==
    /\ tab[t].pc = "find"
    /\ IF row = NoRow THEN PollEnds(t)
       ELSE IF row.status = "DONE" THEN tab' = [tab EXCEPT ![t] = Closed]
       ELSE IF row.status = Spendable /\ ~row.requested
         THEN tab' = [tab EXCEPT ![t].shown = Offer(row),
                 ![t].pc = IF kind = "in" /\ ~tab[t].address
                             THEN "address" ELSE "psbt"]
       ELSE tab' = [tab EXCEPT ![t].shown = Offer(row), ![t].pc = "idle"]
    /\ UNCHANGED <<userVars, row, server, spend, faults, closes>>

(* A refund waits for the address; the poll, and with it the page, stands  *)
(* still until the user gives one.                                         *)
StartRefund(t) ==
    /\ tab[t].pc = "address" /\ tab[t].shown = "refund"
    /\ tab' = [tab EXCEPT ![t].pc = "psbt", ![t].address = TRUE]
    /\ UNCHANGED <<userVars, row, server, spend, faults, closes>>

(* For a claim on Liquid the server wants the contract to be unspent still.*)
getClaimPsbtRefuses == kind = "out" /\ server.status # "CONTRACT_FUNDED"

(* GET refund-psbt or claim-psbt, checked and signed.                      *)
GetPsbt(t) ==
    /\ tab[t].pc = "psbt"
    /\ \/ Goto(t, "publish") /\ UNCHANGED faults
       \/ getClaimPsbtRefuses /\ PollEnds(t) /\ UNCHANGED faults
       \/ Fault /\ PollEnds(t)
    /\ UNCHANGED <<userVars, row, server, spend, closes>>

(* A transaction that the node refuses is answered like one it takes.      *)
sendRefundTx(taken) ==
    spend' = IF taken THEN "published" ELSE IF spend = "none" THEN "refused" ELSE spend

(* mutant: an error of the request is ignored.                             *)
PublishIgnoresErrors(t) ==
    /\ tab[t].pc = "publish"
    /\ Goto(t, "dateGet")
    /\ \/ sendRefundTx(TRUE) /\ UNCHANGED faults
       \/ UNCHANGED spend /\ Fault
    /\ UNCHANGED <<userVars, row, server, closes>>

(* POST refund-tx or claim: the request, or its answer, may be lost.       *)
Publish(t) ==
    /\ tab[t].pc = "publish"
    /\ \/ /\ sendRefundTx(TRUE)
          /\ \/ Goto(t, "dateGet") /\ UNCHANGED faults
             \/ Fault /\ PollEnds(t)
       \/ /\ Fault
          /\ \/ UNCHANGED spend /\ PollEnds(t)
             \/ sendRefundTx(FALSE) /\ Goto(t, "dateGet")
    /\ UNCHANGED <<userVars, row, server, closes>>

TabStep(t) ==
    \/ Find(t)
    \/ UpdateStatusGet(t) \/ UpdateStatusPut(t) \/ FindById(t)
    \/ GetPsbt(t) \/ Publish(t)
    \/ UpdateDateGet(t) \/ UpdateDatePut(t)

-----------------------------------------------------------------------------
(* The user pays the contract or the invoice that a page shows, which may  *)
(* have moved on since.                                                    *)
UserPays ==
    /\ ~paid /\ \E t \in Tabs : tab[t].shown = "payment"
    /\ paid' = TRUE
    /\ UNCHANGED <<user, form, row, file, tab, server, spend, faults, closes, deletes>>

(* The server moves the swap on: after CREATED with the user's money, to a *)
(* spend of the user's only when there is one.                             *)
UserSpends ==
    IF kind = "in" THEN "CONTRACT_REFUNDED_UNCONFIRMED"
                   ELSE "CONTRACT_CLAIMED_UNCONFIRMED"

ServerMoves ==
    /\ server.status # "NONE"
    /\ server' \in (IF kind = "in" THEN InMoves ELSE OutMoves)[server.status]
    /\ server.status = "DONE" => server.outcome = "REFUNDED"
    /\ server.status = "CREATED" /\ server'.status # "DONE" => paid
    /\ server'.status = UserSpends => spend = "published"
    /\ UNCHANGED <<userVars, row, tab, spend, faults, closes>>

WebNext ==
    \/ CreateSwap \/ Persist \/ UserPays \/ ServerMoves
    \/ DeleteSwap \/ Export \/ Import
    \/ \E t \in Tabs : \/ Navigate(t) \/ OpenFromHistory(t) \/ CloseTab(t)
                       \/ StartRefund(t) \/ TabStep(t)

(* Pages run, the user comes back to a swap that is not done and gives an  *)
(* address when asked for one.                                             *)
WebFairness ==
    \A t \in Pages :
      /\ WF_webVars(t \in Tabs /\ TabStep(t))
      /\ WF_webVars(t \in Tabs /\ row.status # "DONE" /\ OpenFromHistory(t))
      /\ WF_webVars(StartRefund(t))

WebSpec == WebInit /\ [][WebNext]_webVars
WebLiveSpec == WebSpec /\ WebFairness

-----------------------------------------------------------------------------
(* Who paid has the keys: the row is there, with its keys, until the user  *)
(* deletes it, and a page that was polling meanwhile does not bring back   *)
(* half of it.                                                             *)
MoneyHasKeys ==
    /\ row # NoRow => row.keys
    /\ paid /\ deletes = 0 => row # NoRow

(* The date that keeps the tracker from asking again is only ever in the   *)
(* store, or in a backup, after the server was given the transaction.      *)
RequestedMeansPublished == row.requested \/ file.requested => spend # "none"

(* A contract the user may spend is spent while its row exists: no failed  *)
(* request, lost answer, closed page, second page or import stops the      *)
(* tracker for good.  One thing does: the server answers a broadcast that  *)
(* the node refused as one it took, so the date is written and the tracker *)
(* does not ask again, with the contract unspent.                          *)
RefusalNotedAsDone == spend = "refused" /\ row.requested

OnlyARefusalStopsTheTracker ==
    server.status = Spendable /\ row # NoRow
      ~> \/ spend = "published" \/ RefusalNotedAsDone
         \/ server.status # Spendable \/ row = NoRow

(* The history ends up with the end of the swap, whatever an older poll of *)
(* another page wrote last.                                                *)
HistoryCatchesUp ==
    <>[](server.status = "DONE" => row = NoRow \/ row.status = "DONE")

=============================================================================
