---------------------------- MODULE ExchangeCalls ---------------------------
(***************************************************************************)
(* What a caller learns from the exchange: BinanceClient and the execution *)
(* adapter over it (src/src/brokers/binance).  One call at a time goes     *)
(* through the adapter or straight to the client, and its outcome, an      *)
(* answer or an error of the SDK, is mapped twice on its way back, while   *)
(* the exchange goes on with the orders it has.                            *)
(***************************************************************************)
EXTENDS Naturals, Sequences

CONSTANTS MaxPlaced,    \* bound: orders the exchange accepts
          MaxDoubts,    \* bound: submissions whose answer leaves their fate open
          KeysPresent   \* BOOLEAN values: API key and secret are configured

ASSUME CallsAssumption == MaxPlaced \in Nat \ {0} /\ KeysPresent \subseteq BOOLEAN

VARIABLES
    book,       \* the exchange's orders, by identifier: "NEW", "FILLED" or "CANCELED"
    keyed,      \* this process has both keys
    apiCall,    \* the call under way: [op, door, id]
    callStage,  \* "idle", "checked", "sent", "replied" or "answered"
    reply,      \* what the SDK gave: "ok", an error code, "request" or "network"
    read,       \* the order's state that an "ok" carries
    answer,     \* what the caller got: "result", the name of an exception, or none
    confirmed,  \* history: submissions that were answered with a result
    doubts,     \* history: submissions that were answered with their fate left open
    told        \* history: by identifier, the last status an answer gave
callVars == <<book, keyed, apiCall, callStage, reply, read, answer, confirmed, doubts, told>>

Ids == 1..MaxPlaced
NoCall == [op |-> "none", door |-> "none", id |-> 1]

(***************************************************************************)
(* The client's methods: whether one needs the keys, the error codes its   *)
(* except clause for the API's errors turns into BinanceAPIError, and the  *)
(* codes that have an exception of their own there.                        *)
(***************************************************************************)
Codes == {"-1000", "-1003", "-1007", "-1013", "-1121", "-2010", "-2011", "-2013", "-2015"}
Method(signed, codes, named) == [signed |-> signed, codes |-> codes \ named, named |-> named]

Ping            == Method(FALSE, {}, {})
GetServerTime   == Method(FALSE, {}, {})
GetKlines       == Method(FALSE, Codes, {"-1121", "-1003"})
GetExchangeInfo == Method(FALSE, Codes, {"-1121"})
GetAccount      == Method(TRUE, Codes, {"-2015"})
CreateOrder     == Method(TRUE, Codes, {"-1121", "-1003"})
CancelOrder     == Method(TRUE, Codes, {})
GetOrderStatus  == Method(TRUE, Codes, {})
GetOpenOrders   == Method(TRUE, Codes, {})

Methods ==
    [ping |-> Ping, get_server_time |-> GetServerTime, get_klines |-> GetKlines,
     get_exchange_info |-> GetExchangeInfo, get_account |-> GetAccount,
     create_order |-> CreateOrder, cancel_order |-> CancelOrder,
     get_order_status |-> GetOrderStatus, get_open_orders |-> GetOpenOrders]
Ops == DOMAIN Methods

OwnException(code) ==
    IF code = "-1121" THEN "SymbolNotFoundError"
    ELSE IF code = "-1003" THEN "BinanceRateLimitError"
    ELSE "BinanceAuthenticationError"

(* "request" is an answer that is none of the API's; the errors of the     *)
(* network have no clause anywhere.                                        *)
ClientRaises(op, error) ==
    IF error = "request" THEN "BinanceConnectionError"
    ELSE IF error \in Methods[op].named THEN OwnException(error)
    ELSE IF error \in Methods[op].codes THEN "BinanceAPIError"
    ELSE "unmapped"

(* The adapter's methods go through those of the client.                   *)
ByAdapter == {"create_order", "cancel_order", "get_order_status", "get_account"}

CallInit ==
    /\ book = << >> /\ keyed \in KeysPresent
    /\ apiCall = NoCall /\ callStage = "idle" /\ reply = "none" /\ read = "none"
    /\ answer = "none" /\ confirmed = 0 /\ doubts = 0
    /\ told = [i \in Ids |-> "none"]

(***************************************************************************)
(* On the way out.                                                         *)
(***************************************************************************)
(* The adapter refuses a side or a type that it has no translation for;    *)
(* a symbol that cannot be looked up leaves the quantity unrounded, and    *)
(* the exchange to judge it.                                               *)
CallAdapter(op, id, translates) ==
    /\ callStage = "idle" /\ op \in ByAdapter
    /\ op # "create_order" => translates
    /\ apiCall' = [op |-> op, door |-> "adapter", id |-> id]
    /\ IF translates THEN callStage' = "checked" /\ UNCHANGED answer
       ELSE callStage' = "answered" /\ answer' = "OrderRejectedError"
    /\ UNCHANGED <<book, keyed, reply, read, confirmed, doubts, told>>

CallClient(op, id) ==
    /\ callStage = "idle"
    /\ apiCall' = [op |-> op, door |-> "client", id |-> id]
    /\ callStage' = "checked"
    /\ UNCHANGED <<book, keyed, reply, read, answer, confirmed, doubts, told>>

(* Without keys a signed call ends before the limiter and the network.     *)
ClientSends ==
    /\ callStage = "checked"
    /\ IF Methods[apiCall.op].signed /\ ~keyed
       THEN callStage' = "answered" /\ answer' = "BinanceAuthenticationError"
       ELSE callStage' = "sent" /\ UNCHANGED answer
    /\ UNCHANGED <<book, keyed, apiCall, reply, read, confirmed, doubts, told>>

(***************************************************************************)
(* The exchange, and the SDK's view of its answer.                         *)
(***************************************************************************)
Known(id) == id \in DOMAIN book
StateOf(id) == IF Known(id) THEN book[id] ELSE "none"

(* Errors before the exchange has done anything.                           *)
Refusals(op) ==
    {"-1003", "-1000"} \cup (IF Methods[op].signed THEN {"-2015"} ELSE {})
    \cup (IF op \in {"create_order", "get_klines", "get_exchange_info"} THEN {"-1121"} ELSE {})
    \cup (IF op = "create_order" THEN {"-2010", "-1013"} ELSE {})

(* A carried out request whose answer is lost: the exchange gives up on    *)
(* waiting (-1007), what comes is no answer of it, or nothing comes.       *)
Lost == {"-1007", "request", "network"}

Replies(codes) == reply' \in codes /\ read' = "none"

Accepts(state) ==
    /\ Len(book) < MaxPlaced
    /\ book' = Append(book, state)
    /\ \/ reply' = "ok" /\ read' = state
       \/ Replies(Lost)

Cancels(id) ==
    IF StateOf(id) = "NEW"
    THEN /\ book' = [book EXCEPT ![id] = "CANCELED"]
         /\ \/ reply' = "ok" /\ read' = "CANCELED"
            \/ Replies(Lost)
    ELSE Replies({"-2011"}) /\ UNCHANGED book

ExchangeReplies ==
    /\ callStage = "sent" /\ callStage' = "replied"
    /\ \/ Replies(Refusals(apiCall.op) \cup Lost) /\ UNCHANGED book
       \/ apiCall.op = "create_order" /\ \E state \in {"NEW", "FILLED"} : Accepts(state)
       \/ apiCall.op = "cancel_order" /\ Cancels(apiCall.id)
       \/ /\ apiCall.op = "get_order_status"
          /\ IF Known(apiCall.id) THEN reply' = "ok" /\ read' = book[apiCall.id]
             ELSE Replies({"-2013"})
          /\ UNCHANGED book
       \/ /\ apiCall.op \notin {"create_order", "cancel_order", "get_order_status"}
          /\ Replies({"ok"}) /\ UNCHANGED book
    /\ UNCHANGED <<keyed, apiCall, answer, confirmed, doubts, told>>

BookMoves(id) ==
    /\ StateOf(id) = "NEW"
    /\ \E state \in {"FILLED", "CANCELED"} : book' = [book EXCEPT ![id] = state]
    /\ UNCHANGED <<keyed, apiCall, callStage, reply, read, answer, confirmed, doubts, told>>

(***************************************************************************)
(* On the way back.                                                        *)
(***************************************************************************)
(* A bug of HandleApiError: what is not known is a rejection.              *)
HandleApiErrorRejects(code) ==
    IF code = "-2010" THEN "InsufficientBalanceError"
    ELSE IF code \in {"-2011", "-2013"} THEN "OrderNotFoundError"
    ELSE "OrderRejectedError"

HandleApiError(code) ==
    IF code = "-2010" THEN "InsufficientBalanceError"
    ELSE IF code \in {"-2011", "-2013"} THEN "OrderNotFoundError"
    ELSE IF code = "-1013" THEN "OrderRejectedError"
    ELSE "OrderSubmissionError"

(* The adapter's order methods map the client's BinanceAPIError and let    *)
(* every other exception through; get_account_balance maps nothing.        *)
AdapterRaises(op, code) ==
    IF op # "get_account" /\ ClientRaises(op, code) = "BinanceAPIError"
    THEN HandleApiError(code) ELSE ClientRaises(op, code)

Outcome ==
    IF reply = "ok" THEN "result"
    ELSE IF apiCall.door = "adapter" THEN AdapterRaises(apiCall.op, reply)
    ELSE ClientRaises(apiCall.op, reply)

(* What a caller may take for the end of its submission, nothing placed.   *)
Denials == {"OrderRejectedError", "InsufficientBalanceError", "SymbolNotFoundError",
            "BinanceAuthenticationError", "BinanceRateLimitError"}

CallReturns ==
    /\ callStage = "replied" /\ callStage' = "answered"
    /\ answer' = Outcome
    /\ IF apiCall.op # "create_order" THEN UNCHANGED <<confirmed, doubts>>
       ELSE /\ confirmed' = confirmed + (IF reply = "ok" THEN 1 ELSE 0)
            /\ doubts' = doubts + (IF Outcome \in Denials \cup {"result"} THEN 0 ELSE 1)
    /\ told' = IF read = "none" THEN told
               ELSE [told EXCEPT ![IF apiCall.op = "create_order" THEN Len(book)
                                   ELSE apiCall.id] = read]
    /\ UNCHANGED <<book, keyed, apiCall, reply, read>>

CallEnds ==
    /\ callStage = "answered" /\ doubts < MaxDoubts
    /\ apiCall' = NoCall /\ callStage' = "idle" /\ reply' = "none" /\ read' = "none"
    /\ answer' = "none"
    /\ UNCHANGED <<book, keyed, confirmed, doubts, told>>

CallNext ==
    \/ \E op \in ByAdapter, id \in Ids, translates \in BOOLEAN : CallAdapter(op, id, translates)
    \/ \E op \in Ops, id \in Ids : CallClient(op, id)
    \/ ClientSends \/ ExchangeReplies \/ CallReturns \/ CallEnds
    \/ \E id \in Ids : BookMoves(id)

CallSpec == CallInit /\ [][CallNext]_callVars

(***************************************************************************)
(* Properties.                                                             *)
(***************************************************************************)
\* Whatever is lost between the two, the caller and the exchange never disagree
\* on more than the caller knows to be open: every order at the exchange is one
\* it was told of, or one of a submission that ended without a denial; an order
\* it was told to be over stays as it was told; and an order it was told not to
\* find is not a live one.
AnswersTellTheTruth ==
    /\ callStage \in {"idle", "answered"} =>
          confirmed <= Len(book) /\ Len(book) <= confirmed + doubts
    /\ \A id \in Ids : told[id] \in {"FILLED", "CANCELED"} => StateOf(id) = told[id]
    /\ answer = "OrderNotFoundError" => StateOf(apiCall.id) # "NEW"
=============================================================================
