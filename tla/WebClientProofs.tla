--------------------------- MODULE WebClientProofs ---------------------------
(***************************************************************************)
(* The browser never loses the keys of a swap that was paid, and never     *)
(* records a claim or refund that it did not hand over: for any number of  *)
(* pages, failures, reloads, deletions and imports.  The form that creates *)
(* the swap asks for what it validated, whatever is pasted, typed, flipped *)
(* and selected.                                                           *)
(***************************************************************************)
EXTENDS WebClient, SwapForm, TLAPS

(* What the proofs need of the variables' types.                           *)
Texts == DOMAIN InMoves \cup DOMAIN OutMoves \cup {"NONE"}
Rows == [status : Texts, requested : BOOLEAN, keys : BOOLEAN]

TabStates ==
    [ pc : {"closed", "idle", "get", "put", "find", "address", "psbt",
            "publish", "dateGet", "datePut", "stuck"},
      found : Texts, next : Rows, shown : {"nothing", "payment", "refund"},
      address : BOOLEAN ]

(* The server answers with a status of this kind of swap.                  *)
ServerOK(view) ==
    view \in [ status : (IF kind = "in" THEN DOMAIN InMoves ELSE DOMAIN OutMoves) \cup {"NONE"},
               outcome : {"NONE", "SUCCESS", "REFUNDED", "EXPIRED", "ERROR"} ]

ShapeOK ==
    /\ user \in Users
    /\ row \in Rows /\ file \in Rows
    /\ tab \in [Pages -> TabStates]
    /\ ServerOK(server)
    /\ deletes \in Nat

(* A row that is there, in the store, in the backup or in the hands of an  *)
(* update, has the keys.                                                   *)
KeyedIfThere(r) == r # NoRow => r.keys

RowsHaveKeys ==
    /\ KeyedIfThere(row) /\ KeyedIfThere(file)
    /\ \A t \in Pages : tab[t].pc \in {"put", "datePut"} => tab[t].next.keys

(* Until the user deletes it, the row is there as soon as the page with the*)
(* contract can be opened.                                                 *)
StoredFirst ==
    deletes = 0 =>
      /\ form \in {"stored", "done"} => row # NoRow
      /\ paid => row # NoRow
      /\ \A t \in Pages : tab[t].pc # "closed" \/ tab[t].shown = "payment" => row # NoRow

(* Whoever knows of a request, or is about to store one, knows of one that *)
(* the server was given.                                                   *)
Handed(t) == tab[t].pc \in {"dateGet", "datePut"} \/ tab[t].next.requested

RequestsWereMade ==
    row.requested \/ file.requested \/ (\E t \in Pages : Handed(t)) => spend # "none"

WebInv == ShapeOK /\ RowsHaveKeys /\ StoredFirst /\ RequestsWereMade

-----------------------------------------------------------------------------
LEMMA TabsArePages == ASSUME user \in Users PROVE Tabs \subseteq Pages
BY DEF Tabs, Pages

LEMMA NoRowIsARow == NoRow \in Rows /\ NoRow.requested = FALSE
BY DEF NoRow, Rows, Texts

LEMMA ClosedIsATab ==
  Closed \in TabStates /\ Closed.pc = "closed" /\ Closed.next = NoRow /\ Closed.shown = "nothing"
BY NoRowIsARow DEF Closed, TabStates, Texts

(* One page takes a step that leaves the store alone.                      *)
LEMMA PageMoves ==
  ASSUME WebInv, NEW t \in Tabs, NEW r \in TabStates,
         tab' = [tab EXCEPT ![t] = r],
         r.pc \in {"put", "datePut"} => r.next.keys,
         deletes = 0 => row # NoRow,
         r.pc \in {"dateGet", "datePut"} \/ r.next.requested => spend' # "none",
         spend # "none" => spend' # "none",
         UNCHANGED <<user, file, paid, deletes, row, server>>,
         form' = form \/ form' = "done"
  PROVE  WebInv'
<1> USE DEF WebInv
<1>1. t \in Pages /\ Pages' = Pages
  BY TabsArePages DEF ShapeOK, Pages
<1>2. tab'[t] = r /\ \A p \in Pages \ {t} : tab'[p] = tab[p]
  BY <1>1 DEF ShapeOK
<1>3. ShapeOK'
  BY <1>1 DEF ShapeOK, ServerOK, kind
<1>4. RowsHaveKeys'
  BY <1>2 DEF RowsHaveKeys, KeyedIfThere
<1>5. StoredFirst'
  BY DEF StoredFirst
<1>6. RequestsWereMade'
  BY <1>2 DEF RequestsWereMade, Handed
<1> QED BY <1>3, <1>4, <1>5, <1>6

(* A poll that ends, or an update that finds no row, stores nothing.       *)
LEMMA PollEndsQuietly ==
  ASSUME WebInv, NEW t \in Tabs, tab[t].pc # "closed", PollEnds(t),
         spend # "none" => spend' # "none",
         UNCHANGED <<userVars, row, server>>
  PROVE  WebInv'
<1> DEFINE r == [tab[t] EXCEPT !.pc = "idle", !.found = "NONE", !.next = NoRow]
<1>1. t \in Pages
  BY TabsArePages DEF WebInv, ShapeOK
<1>2. r \in TabStates /\ r.pc = "idle" /\ r.next = NoRow
  BY <1>1, NoRowIsARow DEF WebInv, ShapeOK, TabStates, Texts
<1>3. deletes = 0 => row # NoRow
  BY <1>1 DEF WebInv, StoredFirst
<1>4. tab' = [tab EXCEPT ![t] = r]
  BY DEF PollEnds
<1> HIDE DEF r
<1> QED BY <1>2, <1>3, <1>4, NoRowIsARow, PageMoves DEF userVars

-----------------------------------------------------------------------------
(* The form and the history.                                               *)
LEMMA OpenKeeps ==
  ASSUME WebInv, NEW t \in Tabs, OpenTab(t), row # NoRow,
         UNCHANGED <<user, file, paid, deletes, row, server, spend>>,
         form' = form \/ form' = "done"
  PROVE  WebInv'
<1> DEFINE r == [Closed EXCEPT !.pc = "idle"]
<1>1. r \in TabStates /\ r.pc = "idle" /\ r.next = NoRow
  BY ClosedIsATab DEF TabStates
<1>2. tab' = [tab EXCEPT ![t] = r]
  BY DEF OpenTab
<1> HIDE DEF r
<1> QED BY <1>1, <1>2, NoRowIsARow, PageMoves

LEMMA NavigateKeeps ==
  ASSUME WebInv, NEW t \in Tabs, Navigate(t)
  PROVE  WebInv'
<1> DEFINE r == [Closed EXCEPT !.pc = "idle"]
<1>1. r \in TabStates /\ r.pc = "idle" /\ r.next = NoRow
  BY ClosedIsATab DEF TabStates
<1>2. tab' = [tab EXCEPT ![t] = r] /\ (deletes = 0 => row # NoRow)
  BY DEF Navigate, OpenTab, WebInv, StoredFirst
<1> HIDE DEF r
<1> QED BY <1>1, <1>2, NoRowIsARow, PageMoves DEF Navigate

LEMMA CloseKeeps ==
  ASSUME WebInv, NEW t \in Tabs, CloseTab(t)
  PROVE  WebInv'
<1>1. deletes = 0 => row # NoRow
  BY TabsArePages DEF CloseTab, WebInv, StoredFirst, ShapeOK
<1> QED BY <1>1, ClosedIsATab, NoRowIsARow, PageMoves DEF CloseTab, userVars

(* What changes the store without a page: every page's step stays what it  *)
(* was.                                                                    *)
LEMMA StoreChanges ==
  ASSUME WebInv, row' \in Rows, file' \in Rows, KeyedIfThere(row'), KeyedIfThere(file'),
         row'.requested \/ file'.requested => spend # "none",
         deletes' \in Nat,
         deletes' = 0 => (deletes = 0 /\ (row' = NoRow => row = NoRow)),
         deletes' = 0 /\ form' \in {"stored", "done"} => row' # NoRow,
         UNCHANGED <<user, tab, server, paid, spend>>
  PROVE  WebInv'
<1> USE DEF WebInv
<1>1. ShapeOK'
  BY DEF ShapeOK, Pages, ServerOK, kind
<1>2. RowsHaveKeys' /\ RequestsWereMade'
  BY DEF RowsHaveKeys, RequestsWereMade, Handed
<1>3. StoredFirst'
  BY DEF StoredFirst
<1> QED BY <1>1, <1>2, <1>3

LEMMA StoreKeeps ==
  ASSUME WebInv, Persist \/ DeleteSwap \/ Export \/ Import
  PROVE  WebInv'
<1> USE DEF WebInv
<1>1. /\ row \in Rows /\ file \in Rows /\ deletes \in Nat /\ KeyedIfThere(row) /\ KeyedIfThere(file)
      /\ row.requested \/ file.requested => spend # "none"
  BY DEF ShapeOK, RowsHaveKeys, RequestsWereMade
<1>2. CASE Persist
  <2>1. LocalSwap \in Rows /\ LocalSwap # NoRow /\ LocalSwap.keys /\ ~LocalSwap.requested
    BY DEF LocalSwap, Rows, NoRow, Texts, InMoves
  <2>2. row' = row \/ row' = LocalSwap
    BY <1>2 DEF Persist
  <2>3. (form' = "stored" /\ row' = LocalSwap) \/ form' = "failed"
    BY <1>2 DEF Persist
  <2>4. KeyedIfThere(row')
    BY <1>1, <2>1, <2>2 DEF KeyedIfThere
  <2>5. row'.requested => spend # "none"
    BY <1>1, <2>1, <2>2
  <2>6. UNCHANGED <<user, file, tab, server, paid, spend, deletes>>
    BY <1>2 DEF Persist
  <2> HIDE DEF WebInv
  <2> QED BY <1>1, <2>1, <2>2, <2>3, <2>4, <2>5, <2>6, StoreChanges
<1>3. CASE DeleteSwap
  <2>1. deletes' \in Nat /\ deletes' # 0
    BY <1>3 DEF DeleteSwap, ShapeOK
  <2>2. row' = NoRow /\ UNCHANGED <<user, file, tab, server, paid, spend>>
    BY <1>3 DEF DeleteSwap
  <2>3. KeyedIfThere(row') /\ ~row'.requested /\ row' \in Rows
    BY <2>2, NoRowIsARow DEF KeyedIfThere
  <2> HIDE DEF WebInv
  <2> QED BY <1>1, <2>1, <2>2, <2>3, StoreChanges
<1>4. CASE Export
  BY <1>1, <1>4, StoreChanges DEF Export, StoredFirst
<1>5. CASE Import
  <2>1. row' = IF row = NoRow THEN file ELSE row
    BY <1>5 DEF Import, restoreBackup
  <2>2. file # NoRow /\ row' # NoRow
    BY <1>5, <2>1 DEF Import
  <2>3. UNCHANGED <<user, form, file, tab, server, paid, spend, deletes>>
    BY <1>5 DEF Import, userVars
  <2>4. row' \in Rows /\ KeyedIfThere(row') /\ (row'.requested => spend # "none")
    BY <1>1, <2>1
  <2> HIDE DEF WebInv
  <2> QED BY <1>1, <2>2, <2>3, <2>4, StoreChanges
<1> QED BY <1>2, <1>3, <1>4, <1>5

-----------------------------------------------------------------------------
(* The tracker of one page.                                                *)
LEMMA FindKeeps ==
  ASSUME WebInv, NEW t \in Tabs, Find(t)
  PROVE  WebInv'
<1>1. t \in Pages /\ tab[t].pc = "idle"
  BY TabsArePages DEF Find, WebInv, ShapeOK
<1>2. CASE PollEnds(t)
  BY <1>1, <1>2, PollEndsQuietly DEF Find
<1>3. CASE tab' = [tab EXCEPT ![t].pc = "get", ![t].found = server.status]
  <2> DEFINE r == [tab[t] EXCEPT !.pc = "get", !.found = server.status]
  <2>1. tab' = [tab EXCEPT ![t] = r]
    BY <1>3
  <2>2. r \in TabStates /\ r.pc = "get" /\ r.next = tab[t].next
    BY <1>1 DEF WebInv, ShapeOK, ServerOK, TabStates, Texts
  <2>3. (deletes = 0 => row # NoRow) /\ (r.next.requested => spend # "none")
    BY <1>1, <2>2 DEF WebInv, StoredFirst, RequestsWereMade, Handed
  <2> HIDE DEF r
  <2> QED BY <2>1, <2>2, <2>3, PageMoves DEF Find, userVars
<1> QED BY <1>2, <1>3 DEF Find

LEMMA GetKeeps ==
  ASSUME WebInv, NEW t \in Tabs, NEW pc, NEW then \in {"put", "datePut"}, NEW merged \in Rows,
         UpdateGet(t, pc, then, merged), pc # "closed", merged.keys = row.keys,
         then = "datePut" \/ merged.requested => spend # "none"
  PROVE  WebInv'
<1>1. t \in Pages /\ tab[t].pc = pc
  BY TabsArePages DEF UpdateGet, WebInv, ShapeOK
<1>2. CASE row = NoRow
  BY <1>1, <1>2, PollEndsQuietly DEF UpdateGet
<1>3. CASE row # NoRow
  <2> DEFINE r == [tab[t] EXCEPT !.pc = then, !.found = "NONE", !.next = merged]
  <2>1. tab' = [tab EXCEPT ![t] = r]
    BY <1>3 DEF UpdateGet
  <2>2. r \in TabStates /\ r.pc = then /\ r.next = merged
    BY <1>1 DEF WebInv, ShapeOK, TabStates, Texts
  <2>3. merged.keys
    BY <1>3 DEF WebInv, RowsHaveKeys, KeyedIfThere
  <2> HIDE DEF r
  <2> QED BY <1>3, <2>1, <2>2, <2>3, PageMoves DEF UpdateGet, userVars
<1> QED BY <1>2, <1>3

LEMMA PutKeeps ==
  ASSUME WebInv, NEW t \in Tabs, NEW pc \in {"put", "datePut"}, NEW then \in {"find", "idle"},
         UpdatePut(t, pc, then)
  PROVE  WebInv'
<1> DEFINE r == [tab[t] EXCEPT !.pc = then, !.next = NoRow]
<1>1. t \in Pages /\ tab[t].pc = pc /\ Pages' = Pages
  BY TabsArePages DEF UpdatePut, WebInv, ShapeOK, Pages
<1>2. row' = tab[t].next /\ row' \in Rows /\ row'.keys /\ row' # NoRow
  BY <1>1 DEF UpdatePut, WebInv, ShapeOK, TabStates, RowsHaveKeys, NoRow
<1>3. r \in TabStates /\ r.pc = then /\ r.next = NoRow
  BY <1>1, NoRowIsARow DEF WebInv, ShapeOK, TabStates
<1>4. /\ tab'[t] = r /\ \A p \in Pages \ {t} : tab'[p] = tab[p]
      /\ tab' \in [Pages -> TabStates]
  BY <1>1, <1>3 DEF UpdatePut, WebInv, ShapeOK
<1> HIDE DEF r
<1>5. UNCHANGED <<user, form, file, paid, deletes, server, spend>>
  BY DEF UpdatePut, userVars
<1>6. ShapeOK'
  BY <1>1, <1>2, <1>4, <1>5 DEF WebInv, ShapeOK, ServerOK, kind
<1>7. RowsHaveKeys'
  BY <1>1, <1>2, <1>3, <1>4, <1>5 DEF WebInv, RowsHaveKeys, KeyedIfThere
<1>8. StoredFirst'
  BY <1>2 DEF StoredFirst
<1>9. RequestsWereMade'
  BY <1>1, <1>2, <1>3, <1>4, <1>5, NoRowIsARow DEF WebInv, RequestsWereMade, Handed
<1> QED BY <1>6, <1>7, <1>8, <1>9 DEF WebInv

(* A page goes on without an update in its hands.                          *)
LEMMA PageGoesOn ==
  ASSUME WebInv, NEW t \in Tabs, tab[t].pc # "closed",
         NEW r \in TabStates, tab' = [tab EXCEPT ![t] = r], r.next = tab[t].next,
         r.pc \notin {"put", "datePut"}, r.pc = "dateGet" => spend' # "none",
         spend # "none" => spend' # "none",
         UNCHANGED <<userVars, row, server>>
  PROVE  WebInv'
<1>1. t \in Pages
  BY TabsArePages DEF WebInv, ShapeOK
<1>2. (deletes = 0 => row # NoRow) /\ (r.next.requested => spend # "none")
  BY <1>1 DEF WebInv, StoredFirst, RequestsWereMade, Handed
<1> QED BY <1>2, PageMoves DEF userVars

LEMMA FindByIdKeeps ==
  ASSUME WebInv, NEW t \in Tabs, FindById(t)
  PROVE  WebInv'
<1>1. t \in Pages /\ tab[t].pc = "find" /\ tab[t] \in TabStates /\ row \in Rows
  BY TabsArePages DEF FindById, WebInv, ShapeOK
<1>2. UNCHANGED <<userVars, row, server, spend>>
  BY DEF FindById
<1>3. CASE row = NoRow
  BY <1>1, <1>2, <1>3, PollEndsQuietly DEF FindById
<1>4. CASE row # NoRow /\ row.status = "DONE"
  BY <1>2, <1>4, ClosedIsATab, NoRowIsARow, PageMoves DEF FindById, userVars
<1>5. CASE row # NoRow /\ row.status # "DONE"
  <2>1. Offer(row) \in {"nothing", "payment", "refund"}
    BY DEF Offer
  <2>2. PICK pc \in {"address", "psbt", "idle"} :
          tab' = [tab EXCEPT ![t] = [tab[t] EXCEPT !.shown = Offer(row), !.pc = pc]]
    BY <1>5, <1>1 DEF FindById, WebInv, ShapeOK
  <2> DEFINE r == [tab[t] EXCEPT !.shown = Offer(row), !.pc = pc]
  <2>3. r \in TabStates /\ r.next = tab[t].next /\ r.pc = pc
    BY <1>1, <2>1 DEF TabStates
  <2> HIDE DEF r
  <2> QED BY <1>1, <1>2, <2>2, <2>3, PageGoesOn DEF r
<1> QED BY <1>3, <1>4, <1>5

(* Between the row and the date: the address, the request, the broadcast.  *)
LEMMA GotoIs ==
  ASSUME WebInv, NEW t \in Tabs, NEW pc \in {"publish", "dateGet"}, Goto(t, pc)
  PROVE  LET r == [tab[t] EXCEPT !.pc = pc] IN
         tab' = [tab EXCEPT ![t] = r] /\ r \in TabStates /\ r.next = tab[t].next /\ r.pc = pc
BY TabsArePages DEF Goto, WebInv, ShapeOK, TabStates

LEMMA SpendingKeeps ==
  ASSUME WebInv, NEW t \in Tabs, StartRefund(t) \/ GetPsbt(t) \/ Publish(t)
  PROVE  WebInv'
<1>1. /\ t \in Pages /\ tab[t] \in TabStates
      /\ tab[t].pc # "closed" /\ UNCHANGED <<userVars, row, server>>
  BY TabsArePages DEF StartRefund, GetPsbt, Publish, WebInv, ShapeOK
<1>2. spend # "none" => spend' # "none"
  BY DEF StartRefund, GetPsbt, Publish, sendRefundTx, PollEnds, Goto
<1>3. CASE StartRefund(t)
  <2> DEFINE r == [tab[t] EXCEPT !.pc = "psbt", !.address = TRUE]
  <2>1. tab' = [tab EXCEPT ![t] = r] /\ r \in TabStates /\ r.next = tab[t].next /\ r.pc = "psbt"
    BY <1>1, <1>3 DEF StartRefund, TabStates
  <2> HIDE DEF r
  <2> QED BY <1>1, <1>2, <2>1, PageGoesOn
<1>4. CASE PollEnds(t)
  BY <1>1, <1>2, <1>4, PollEndsQuietly
<1>5. CASE GetPsbt(t) /\ Goto(t, "publish")
  BY <1>1, <1>2, <1>5, GotoIs, PageGoesOn
<1>6. CASE Publish(t) /\ Goto(t, "dateGet") /\ spend' # "none"
  BY <1>1, <1>2, <1>6, GotoIs, PageGoesOn
<1>7. Publish(t) => PollEnds(t) \/ (Goto(t, "dateGet") /\ spend' # "none")
  BY DEF Publish, sendRefundTx
<1> QED BY <1>3, <1>4, <1>5, <1>6, <1>7 DEF GetPsbt

LEMMA TabStepKeeps ==
  ASSUME WebInv, NEW t \in Tabs, TabStep(t)
  PROVE  WebInv'
<1>1. t \in Pages /\ tab[t] \in TabStates /\ row \in Rows
  BY TabsArePages DEF WebInv, ShapeOK
<1>2. CASE UpdateStatusGet(t)
  <2> DEFINE merged == [row EXCEPT !.status = tab[t].found]
  <2>1. /\ merged \in Rows /\ merged.keys = row.keys
        /\ merged.requested => spend # "none"
    BY <1>1 DEF Rows, TabStates, WebInv, RequestsWereMade
  <2>2. UpdateGet(t, "get", "put", merged)
    BY <1>2 DEF UpdateStatusGet
  <2> HIDE DEF merged
  <2> QED BY <2>1, <2>2, GetKeeps
<1>3. CASE UpdateDateGet(t)
  <2> DEFINE merged == [row EXCEPT !.requested = TRUE]
  <2>1. merged \in Rows /\ merged.keys = row.keys
    BY <1>1 DEF Rows
  <2>2. UpdateGet(t, "dateGet", "datePut", merged)
    BY <1>3 DEF UpdateDateGet
  <2>3. spend # "none"
    BY <1>1, <2>2 DEF UpdateGet, WebInv, RequestsWereMade, Handed
  <2> HIDE DEF merged
  <2> QED BY <2>1, <2>2, <2>3, GetKeeps
<1>4. CASE UpdateStatusPut(t) \/ UpdateDatePut(t)
  BY <1>4, PutKeeps DEF UpdateStatusPut, UpdateDatePut
<1> QED BY <1>2, <1>3, <1>4, FindKeeps, FindByIdKeeps, SpendingKeeps DEF TabStep

-----------------------------------------------------------------------------
(* The user, and the server.                                               *)
LEMMA MovesAreTexts ==
  ASSUME ShapeOK, ServerMoves
  PROVE  ServerOK(server')
<1>1. CASE kind = "in"
  <2>1. server.status \in DOMAIN InMoves /\ server' \in InMoves[server.status]
    BY <1>1 DEF ServerMoves, ShapeOK, ServerOK
  <2> QED BY <1>1, <2>1 DEF InMoves, At, Ended, ServerOK
<1>2. CASE kind # "in"
  <2>1. server.status \in DOMAIN OutMoves /\ server' \in OutMoves[server.status]
    BY <1>2 DEF ServerMoves, ShapeOK, ServerOK
  <2> QED BY <1>2, <2>1 DEF OutMoves, At, Ended, ServerOK
<1> QED BY <1>1, <1>2

LEMMA OthersKeep ==
  ASSUME WebInv, CreateSwap \/ UserPays \/ ServerMoves \/ UNCHANGED webVars
  PROVE  WebInv'
<1> USE DEF WebInv
<1>1. UNCHANGED <<user, row, file, tab, deletes>> /\ Pages' = Pages
  BY DEF CreateSwap, UserPays, ServerMoves, webVars, userVars, Pages
<1>2. spend' = spend
  BY DEF CreateSwap, UserPays, ServerMoves, webVars, userVars
<1>3. ShapeOK'
  <2>1. CASE CreateSwap
    BY <2>1, <1>1 DEF CreateSwap, ShapeOK, ServerOK, kind, At, InMoves, OutMoves
  <2>2. CASE ServerMoves
    BY <2>2, <1>1, MovesAreTexts DEF ServerMoves, userVars, ShapeOK, ServerOK, kind
  <2>3. CASE UserPays \/ UNCHANGED webVars
    BY <2>3, <1>1 DEF UserPays, webVars, userVars, ShapeOK, ServerOK, kind
  <2> QED BY <2>1, <2>2, <2>3
<1>4. RowsHaveKeys' /\ RequestsWereMade'
  BY <1>1, <1>2 DEF RowsHaveKeys, KeyedIfThere, RequestsWereMade, Handed
<1>5. StoredFirst'
  <2>1. CASE UserPays
    BY <2>1, <1>1, TabsArePages DEF UserPays, StoredFirst, ShapeOK
  <2>2. CASE CreateSwap \/ ServerMoves \/ UNCHANGED webVars
    BY <2>2, <1>1 DEF CreateSwap, ServerMoves, webVars, userVars, StoredFirst
  <2> QED BY <2>1, <2>2
<1> QED BY <1>3, <1>4, <1>5

LEMMA WebHolds == WebSpec => []WebInv
<1>1. WebInit => WebInv
  <2> SUFFICES ASSUME WebInit PROVE WebInv
    OBVIOUS
  <2>1. ShapeOK
    BY ClosedIsATab, NoRowIsARow DEF WebInit, ShapeOK, ServerOK, At
  <2>2. RowsHaveKeys /\ RequestsWereMade
    BY ClosedIsATab, NoRowIsARow DEF WebInit, RowsHaveKeys, KeyedIfThere, RequestsWereMade, Handed
  <2>3. StoredFirst
    BY ClosedIsATab DEF WebInit, StoredFirst
  <2> QED BY <2>1, <2>2, <2>3 DEF WebInv
<1>2. WebInv /\ [WebNext]_webVars => WebInv'
  <2> SUFFICES ASSUME WebInv, [WebNext]_webVars PROVE WebInv'
    OBVIOUS
  <2>1. ASSUME NEW t \in Tabs, OpenFromHistory(t) PROVE WebInv'
    BY <2>1, OpenKeeps DEF OpenFromHistory, userVars
  <2> QED BY <2>1, NavigateKeeps, CloseKeeps, SpendingKeeps, TabStepKeeps, StoreKeeps, OthersKeep
          DEF WebNext
<1> QED BY <1>1, <1>2, PTL DEF WebSpec

(* LocalSwapStorageService, SwapForm: whatever fails, is closed, reloaded  *)
(* or imported, whoever paid finds the row with its keys until he deletes  *)
(* it, and a late update never brings back a row without them.             *)
THEOREM WebMoneyHasKeys == WebSpec => []MoneyHasKeys
<1>1. WebInv => MoneyHasKeys
  BY DEF WebInv, RowsHaveKeys, KeyedIfThere, StoredFirst, MoneyHasKeys
<1> QED BY <1>1, WebHolds, PTL

(* SwapInTracker.refund, SwapOutTracker.claim: for any number of pages, a  *)
(* date that stops the tracker stands for a transaction the server has.    *)
THEOREM WebRequestedMeansPublished == WebSpec => []RequestedMeansPublished
<1>1. WebInv => RequestedMeansPublished
  BY DEF WebInv, RequestsWereMade, RequestedMeansPublished
<1> QED BY <1>1, WebHolds, PTL

-----------------------------------------------------------------------------
(* The form always pairs Lightning with one chain: the selectors offer     *)
(* nothing else, and flipping keeps the pair.                              *)
FormFields == [from : Assets, to : Assets, payload : PayloadKinds, inputAmount : Nat]
PairsLightning(f) == (f.from = "LIGHTNING_BITCOIN") # (f.to = "LIGHTNING_BITCOIN")

FormInv ==
    /\ fields \in FormFields /\ PairsLightning(fields)
    /\ AskedForIsValid

LEMMA OnChainIs ==
  /\ OnChain.BITCOIN = "ON_CHAIN_BITCOIN" /\ OnChain["BITCOIN"] = "ON_CHAIN_BITCOIN"
  /\ OnChain.LIQUID = "ON_CHAIN_LIQUID" /\ OnChain["LIQUID"] = "ON_CHAIN_LIQUID"
BY DEF OnChain

LEMMA FormFieldsAre ==
  ASSUME NEW f \in FormFields
  PROVE  f.from \in Assets /\ f.to \in Assets /\ f.payload \in PayloadKinds
BY DEF FormFields

(* The chain of a swap is the asset of the form that is not Lightning.     *)
LEMMA ChainIsOfThePair ==
  ASSUME NEW f \in FormFields, PairsLightning(f)
  PROVE  OnChain[chainOf(f)] \in {f.from, f.to}
<1>1. CASE f.to = "LIGHTNING_BITCOIN"
  <2>1. f.from \in {OnChain.BITCOIN, OnChain.LIQUID}
    BY <1>1, FormFieldsAre, OnChainIs DEF PairsLightning, Assets
  <2> QED BY <1>1, <2>1, OnChainIs DEF chainOf, swapType
<1>2. CASE f.to # "LIGHTNING_BITCOIN"
  <2>1. f.to \in {OnChain.BITCOIN, OnChain.LIQUID}
    BY <1>2, FormFieldsAre, OnChainIs DEF Assets
  <2> QED BY <1>2, <2>1, OnChainIs DEF chainOf, swapType
<1> QED BY <1>1, <1>2

(* A form without errors may be sent.                                      *)
LEMMA NoErrorsMeansValid ==
  ASSUME NEW f, errorsOf(f) = {}
  PROVE  /\ f.payload.is = Destination[f.to]
         /\ WithinLimits(inputAmount(f)) /\ WithinLimits(outputAmount(f))
<1>1. "inputAmount" \notin errorsOf(f)
  OBVIOUS
<1>2. "outputAmount" \notin errorsOf(f)
  OBVIOUS
<1>3. "payload" \notin errorsOf(f)
  OBVIOUS
<1> QED BY <1>1, <1>2, <1>3 DEF errorsOf

LEMMA EditKeeps ==
  ASSUME FormInv, NEW f \in FormFields, PairsLightning(f), setForm(f)
  PROVE  FormInv'
BY DEF FormInv, setForm, askingVars, AskedForIsValid

LEMMA SelectKeeps == ASSUME FormInv, SelectAsset PROVE FormInv'
<1> DEFINE f(from, to) ==
      [from |-> from, to |-> to, payload |-> NoPayload, inputAmount |-> 0]
<1>1. NoPayload \in PayloadKinds
  BY DEF NoPayload, PayloadKinds
<1>2. \A from, to \in Assets : f(from, to) \in FormFields
  BY <1>1 DEF FormFields
<1>3. fields.from \in Assets /\ fields.to \in Assets
  BY FormFieldsAre DEF FormInv
<1>4. ASSUME NEW other \in Assets, NEW a \in getAvailableAssetsForAsset(other)
      PROVE  a \in Assets /\ PairsLightning(f(a, other)) /\ PairsLightning(f(other, a))
  BY <1>4 DEF getAvailableAssetsForAsset, PairsLightning
<1>5. ASSUME NEW a \in getAvailableAssetsForAsset(fields.to), updateAssets(a, fields.to)
      PROVE  FormInv'
  <2>1. f(a, fields.to) \in FormFields /\ PairsLightning(f(a, fields.to))
    BY <1>2, <1>3, <1>4
  <2>2. setForm(f(a, fields.to))
    BY <1>5 DEF updateAssets
  <2> HIDE DEF f
  <2> QED BY <2>1, <2>2, EditKeeps
<1>6. ASSUME NEW a \in getAvailableAssetsForAsset(fields.from), updateAssets(fields.from, a)
      PROVE  FormInv'
  <2>1. f(fields.from, a) \in FormFields /\ PairsLightning(f(fields.from, a))
    BY <1>2, <1>3, <1>4
  <2>2. setForm(f(fields.from, a))
    BY <1>6 DEF updateAssets
  <2> HIDE DEF f
  <2> QED BY <2>1, <2>2, EditKeeps
<1> QED BY <1>5, <1>6 DEF SelectAsset

LEMMA TypingKeeps ==
  ASSUME FormInv, TypeAmount \/ TypePayload \/ flipAssets
  PROVE  FormInv'
<1>1. CASE TypeAmount
  <2>1. PICK n \in TypedAmounts : setForm([fields EXCEPT !.inputAmount = n])
    BY <1>1 DEF TypeAmount
  <2>2. n \in Nat
    BY SwapFormAssumption
  <2>3. [fields EXCEPT !.inputAmount = n] \in FormFields
        /\ PairsLightning([fields EXCEPT !.inputAmount = n])
    BY <2>2 DEF FormInv, FormFields, PairsLightning
  <2> QED BY <2>1, <2>3, EditKeeps
<1>2. CASE TypePayload
  <2>1. PICK p \in Payloads : setForm([fields EXCEPT !.payload = p])
    BY <1>2 DEF TypePayload
  <2>2. p \in PayloadKinds
    BY SwapFormAssumption
  <2>3. [fields EXCEPT !.payload = p] \in FormFields
        /\ PairsLightning([fields EXCEPT !.payload = p])
    BY <2>2 DEF FormInv, FormFields, PairsLightning
  <2> QED BY <2>1, <2>3, EditKeeps
<1>3. CASE flipAssets
  <2> DEFINE f == [fields EXCEPT !.from = fields.to, !.to = fields.from, !.inputAmount = 0]
  <2>1. f \in FormFields /\ PairsLightning(f)
    BY DEF FormInv, FormFields, PairsLightning
  <2>2. setForm(f)
    BY <1>3 DEF flipAssets
  <2> HIDE DEF f
  <2> QED BY <2>1, <2>2, EditKeeps
<1> QED BY <1>1, <1>2, <1>3

(* What is asked for without the configuration still pairs Lightning.      *)
LEMMA AskKeeps ==
  ASSUME FormInv, NEW c, NEW checked \in BOOLEAN, Ask(c, checked), UNCHANGED fields,
         checked => errorsOf(fields) = {} /\ c = chainOf(fields)
  PROVE  FormInv'
<1> DEFINE f == asked'.form
<1>1. f = fields /\ asked'.chain = c /\ asked'.checked = checked
  BY DEF Ask
<1>2. PairsLightning(f)
  BY <1>1 DEF FormInv
<1>3. ASSUME checked
      PROVE  /\ OnChain[c] \in {fields.from, fields.to}
             /\ fields.payload.is = Destination[fields.to]
             /\ WithinLimits(inputAmount(fields)) /\ WithinLimits(outputAmount(fields))
  BY <1>3, ChainIsOfThePair, NoErrorsMeansValid DEF FormInv
<1>4. AskedForIsValid'
  BY <1>1, <1>2, <1>3 DEF AskedForIsValid, PairsLightning
<1> QED BY <1>4 DEF FormInv

LEMMA FormHolds == SwapFormSpec => []FormInv
<1>1. SwapFormInit => FormInv
  <2> SUFFICES ASSUME SwapFormInit PROVE FormInv
    OBVIOUS
  <2>1. NoPayload \in PayloadKinds
    BY DEF NoPayload, PayloadKinds
  <2>2. fields \in FormFields /\ PairsLightning(fields)
    BY <2>1, OnChainIs DEF SwapFormInit, FormFields, PairsLightning, Assets
  <2> QED BY <2>2 DEF SwapFormInit, FormInv, AskedForIsValid
<1>2. FormInv /\ [SwapFormNext]_swapFormVars => FormInv'
  <2> SUFFICES ASSUME FormInv, [SwapFormNext]_swapFormVars PROVE FormInv'
    OBVIOUS
  <2>1. CASE TypeAmount \/ TypePayload \/ flipAssets
    BY <2>1, TypingKeeps
  <2>2. CASE SelectAsset
    BY <2>2, SelectKeeps
  <2>3. CASE createSwap
    <3>1. CASE config /\ errorsOf(fields) = {}
      <4>1. Ask(chainOf(fields), TRUE) /\ UNCHANGED fields
        BY <2>3, <3>1 DEF createSwap
      <4> QED BY <3>1, <4>1, AskKeeps
    <3>2. CASE ~(config /\ errorsOf(fields) = {})
      <4>1. UNCHANGED <<fields, asked>>
        BY <2>3, <3>2 DEF createSwap
      <4> QED BY <4>1 DEF FormInv, AskedForIsValid
    <3> QED BY <3>1, <3>2
  <2>4. CASE ConfigLoads
    <3>1. CASE action = "config"
      <4>1. Ask(clickedChain, FALSE) /\ UNCHANGED fields
        BY <2>4, <3>1 DEF ConfigLoads
      <4> QED BY <4>1, AskKeeps
    <3>2. CASE action # "config"
      BY <2>4, <3>2 DEF ConfigLoads, FormInv, AskedForIsValid
    <3> QED BY <3>1, <3>2
  <2>5. CASE SwapIsCreated
    BY <2>5 DEF SwapIsCreated, FormInv, AskedForIsValid
  <2>6. CASE UNCHANGED swapFormVars
    BY <2>6 DEF swapFormVars, askingVars, FormInv, AskedForIsValid
  <2> QED BY <2>1, <2>2, <2>3, <2>4, <2>5, <2>6 DEF SwapFormNext
<1> QED BY <1>1, <1>2, PTL DEF SwapFormSpec

(* createSwap, validate: what the form asks for is what it validated, for  *)
(* any payloads, amounts and limits, and however often the form is flipped,*)
(* edited and refused.  A request that was clicked before the configuration*)
(* was there is only known to pair Lightning with a chain.                 *)
THEOREM FormAsksForWhatIsValid == SwapFormSpec => []AskedForIsValid
<1>1. FormInv => AskedForIsValid
  BY DEF FormInv
<1> QED BY <1>1, FormHolds, PTL

=============================================================================
