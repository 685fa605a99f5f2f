------------------------------ MODULE SwapForm ------------------------------
(***************************************************************************)
(* The form that asks for a swap: its fields, what it derives from them,   *)
(* the validation against a configuration that may still be loading, the   *)
(* button and createSwap, up to the request that WebClient starts from.  A *)
(* step is the code between two events of the browser: an effect that runs *)
(* again on a change is part of the change, and an await of a promise that *)
(* is resolved already lets no event in between.                           *)
(***************************************************************************)
EXTENDS Naturals

CONSTANTS
    Payloads,        \* what may be pasted: [is, amount]
    TypedAmounts,    \* ... and typed
    MinimumAmount, MaximumAmount, FeePercentage   \* the configuration

NoPayload == [is |-> "nothing", amount |-> 0]

(* An invoice may have no amount.                                          *)
PayloadKinds ==
    [is : {"nothing", "invoice", "bitcoin address", "liquid address"}, amount : Nat]

ASSUME SwapFormAssumption ==
    /\ Payloads \subseteq PayloadKinds
    /\ NoPayload \in Payloads
    /\ TypedAmounts \subseteq Nat /\ 0 \in TypedAmounts
    /\ MinimumAmount \in Nat /\ MaximumAmount \in Nat
    /\ FeePercentage \in 0 .. 99

VARIABLES
    config,      \* the configuration is loaded
    fields,      \* form: from, to, payload, inputAmount
    formErrors,  \* the fields that are marked
    validated,   \* createSwap validated the form once
    action,      \* the button: "idle", or what createSwap waits for
    clickedChain, \* ... and the chain it was clicked with
    asked        \* the last request

askingVars == <<config, validated, action, clickedChain, asked>>
swapFormVars == <<askingVars, fields, formErrors>>

OnChain == [BITCOIN |-> "ON_CHAIN_BITCOIN", LIQUID |-> "ON_CHAIN_LIQUID"]
Assets == {"LIGHTNING_BITCOIN", OnChain.BITCOIN, OnChain.LIQUID}
NoRequest == [chain |-> "NONE"]

SwapFormInit ==
    /\ config = FALSE
    /\ fields = [ from |-> OnChain.BITCOIN, to |-> "LIGHTNING_BITCOIN",
                  payload |-> NoPayload, inputAmount |-> 0 ]
    /\ formErrors = {} /\ validated = FALSE
    /\ action = "idle" /\ clickedChain = "NONE"
    /\ asked = NoRequest

-----------------------------------------------------------------------------
(* What the form derives from its fields.                                  *)

swapType(f) == IF f.to = "LIGHTNING_BITCOIN" THEN "in" ELSE "out"

getSwapInInputAmount(amount) == (amount * 100) \div (100 - FeePercentage)
getSwapOutOutputAmount(amount) == (amount * (100 - FeePercentage)) \div 100

(* Of a loaded configuration; only an invoice has an amount.               *)
outputAmount(f) ==
    IF swapType(f) = "in" THEN f.payload.amount
                          ELSE getSwapOutOutputAmount(f.inputAmount)
inputAmount(f) ==
    IF swapType(f) = "in" THEN getSwapInInputAmount(outputAmount(f))
                          ELSE f.inputAmount

chainOf(f) ==
    LET onChain == IF swapType(f) = "in" THEN f.from ELSE f.to
    IN  IF onChain = OnChain.BITCOIN THEN "BITCOIN" ELSE "LIQUID"

WithinLimits(amount) == amount >= MinimumAmount /\ amount <= MaximumAmount

(* What decodes as the destination that the form asks for.                 *)
Destination ==
    [ LIGHTNING_BITCOIN |-> "invoice",
      ON_CHAIN_BITCOIN |-> "bitcoin address",
      ON_CHAIN_LIQUID |-> "liquid address" ]

(* mutant: the payload is only checked to be there.                        *)
errorsOfAmounts(f) ==
    {e \in {"inputAmount", "outputAmount"} :
       \/ e = "inputAmount" /\ ~WithinLimits(inputAmount(f))
       \/ e = "outputAmount" /\ ~WithinLimits(outputAmount(f))}

errorsOf(f) ==
    {e \in {"inputAmount", "outputAmount", "payload"} :
       \/ e = "inputAmount" /\ ~WithinLimits(inputAmount(f))
       \/ e = "outputAmount" /\ ~WithinLimits(outputAmount(f))
       \/ e = "payload" /\ f.payload.is # Destination[f.to]}

-----------------------------------------------------------------------------
(* The user edits.  Once validated, every change validates again.          *)

setForm(f) ==
    /\ action # "left"
    /\ fields' = f
    /\ formErrors' = IF validated THEN errorsOf(f) ELSE formErrors
    /\ UNCHANGED askingVars

(* The amount of a swap-in comes from its invoice: its field is disabled.  *)
TypeAmount ==
    /\ swapType(fields) = "out"
    /\ \E n \in TypedAmounts : setForm([fields EXCEPT !.inputAmount = n])

TypePayload == \E p \in Payloads : setForm([fields EXCEPT !.payload = p])

(* The payload stays, for the other kind of destination.                   *)
flipAssets ==
    setForm([fields EXCEPT !.from = fields.to, !.to = fields.from, !.inputAmount = 0])

(* AssetController: the two chains do not pair.                            *)
getAvailableAssetsForAsset(asset) ==
    {a \in Assets \ {asset} : "LIGHTNING_BITCOIN" \in {a, asset}}

updateAssets(from, to) ==
    setForm([from |-> from, to |-> to, payload |-> NoPayload, inputAmount |-> 0])

(* AssetSelector, on each side.                                            *)
SelectAsset ==
    \/ \E a \in getAvailableAssetsForAsset(fields.to) \ {fields.from} :
         updateAssets(a, fields.to)
    \/ \E a \in getAvailableAssetsForAsset(fields.from) \ {fields.to} :
         updateAssets(fields.from, a)

-----------------------------------------------------------------------------
(* createSwap.                                                             *)

isSendable == formErrors = {} /\ fields.payload # NoPayload

(* SwapService.createSwapIn or createSwapOut, with the fields as they are. *)
Ask(c, checked) ==
    /\ action' = "request"
    /\ asked' = [chain |-> c, form |-> fields, checked |-> checked]

(* The button is disabled while createSwap waits.  Without a configuration *)
(* validate returns at once, and the request waits for the configuration.  *)
createSwap ==
    /\ action = "idle" /\ isSendable
    /\ IF config
         THEN /\ validated' = TRUE
              /\ formErrors' = errorsOf(fields)
              /\ IF formErrors' = {} THEN Ask(chainOf(fields), TRUE)
                                     ELSE UNCHANGED <<action, asked>>
              /\ UNCHANGED clickedChain
         ELSE /\ action' = "config" /\ clickedChain' = chainOf(fields)
              /\ UNCHANGED <<validated, formErrors, asked>>
    /\ UNCHANGED <<config, fields>>

(* ... which then goes out with the chain of the click and the fields as   *)
(* they are by now.                                                        *)
ConfigLoads ==
    /\ ~config /\ config' = TRUE
    /\ IF action = "config" THEN Ask(clickedChain, FALSE) ELSE UNCHANGED <<action, asked>>
    /\ UNCHANGED <<fields, formErrors, validated, clickedChain>>

(* The page of the swap opens; or an error is shown and the button is back.*)
SwapIsCreated ==
    /\ action = "request"
    /\ action' \in {"left", "idle"}
    /\ UNCHANGED <<config, fields, formErrors, validated, clickedChain, asked>>

SwapFormNext ==
    \/ TypeAmount \/ TypePayload \/ flipAssets \/ SelectAsset
    \/ createSwap \/ ConfigLoads \/ SwapIsCreated

SwapFormSpec == SwapFormInit /\ [][SwapFormNext]_swapFormVars

-----------------------------------------------------------------------------
(* A request is for a swap between Lightning and one chain.  One that was  *)
(* sent with the configuration loaded is for the chain of the form, to a   *)
(* destination of its kind, with both amounts within the limits, however   *)
(* the form was flipped, edited and refused before: a payload that flipping*)
(* left behind is never sent for another destination.                      *)
AskedForIsValid ==
    asked # NoRequest =>
      LET f == asked.form IN
      /\ (f.from = "LIGHTNING_BITCOIN") # (f.to = "LIGHTNING_BITCOIN")
      /\ asked.checked =>
           /\ OnChain[asked.chain] \in {f.from, f.to}
           /\ f.payload.is = Destination[f.to]
           /\ WithinLimits(inputAmount(f)) /\ WithinLimits(outputAmount(f))

=============================================================================
