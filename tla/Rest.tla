-------------------------------- MODULE Rest --------------------------------
(***************************************************************************)
(* The REST stream that downloads the products: RestUsdM, and RestCoinM    *)
(* which asks and answers in the same way.                                 *)
(*                                                                         *)
(* core::Download2 has one state to get through.  begin() enters it,       *)
(* which sends the request; retry(s) sends it again if s is the current    *)
(* state; bump() may send it again; check(s) ends the download if s is     *)
(* the current state.  sequence() numbers the downloads, so that skip()    *)
(* tells the answers of an earlier one.  Here a request is marked as       *)
(* overdue when the next download begins.                                  *)
(*                                                                         *)
(* The exchange lists new products while the gateway runs.  listed are     *)
(* those that discard_helper() keeps; an answer has those that were listed *)
(* when the request was sent, and perhaps some that were listed since.     *)
(***************************************************************************)
EXTENDS Naturals

CONSTANTS
    Product,      \* the products the exchange may list
    ClientErrors  \* whether the exchange may answer with a client error
                  \* other than 403 and 429

ASSUME ClientErrorsAssumption == ClientErrors \in BOOLEAN

VARIABLES
    listed,             \* the products the exchange lists
    connection_status,  \* connection_status_
    up,                 \* the HTTP connection
    download,           \* download_.state()
    requests,           \* the requests under way
    wanted,             \* auxiliary: what was listed when the download began
    unheard             \* auxiliary: a request of the download was answered by
                        \* a client error, and nothing was heard of it since

restVars == <<connection_status, up, download, requests, wanted, unheard>>

ProductsRequest == [overdue : BOOLEAN, products : SUBSET Product]

RestInit ==
    /\ listed = {}
    /\ connection_status = "DISCONNECTED"
    /\ up = FALSE
    /\ download = "UNDEFINED"
    /\ requests = {}
    /\ wanted = {}
    /\ unheard = FALSE

RestTypeOK ==
    /\ listed \in SUBSET Product
    /\ connection_status \in {"DISCONNECTED", "DOWNLOADING", "READY"}
    /\ up \in BOOLEAN
    /\ download \in {"UNDEFINED", "PRODUCTS", "DONE"}
    /\ requests \in SUBSET ProductsRequest
    /\ wanted \in SUBSET Product
    /\ unheard \in BOOLEAN

Downloading == download = "PRODUCTS"

NewProductsRequest == [overdue |-> FALSE, products |-> listed]

Overdue == {[r EXCEPT !.overdue = TRUE] : r \in requests}

\* download() of the state PRODUCTS.
EnterProducts(earlier) ==
    /\ connection_status' = "DOWNLOADING"
    /\ requests' = earlier \union {NewProductsRequest}
    /\ unheard' = FALSE

\* A download that was interrupted goes on, otherwise a new one begins.
RestConnected ==
    /\ ~up
    /\ up' = TRUE
    /\ \/ /\ Downloading
          /\ \/ EnterProducts(requests)
             \/ /\ \E r \in requests : ~r.overdue
                /\ UNCHANGED <<connection_status, requests, unheard>>
          /\ UNCHANGED <<download, wanted>>
       \/ /\ ~Downloading
          /\ download' = "PRODUCTS"
          /\ wanted' = listed
          /\ EnterProducts(Overdue)
    /\ UNCHANGED listed

RestDisconnected ==
    /\ up
    /\ up' = FALSE
    /\ connection_status' = "DISCONNECTED"
    /\ download' = IF Downloading THEN download ELSE "UNDEFINED"
    /\ wanted' = IF Downloading THEN wanted ELSE {}
    /\ UNCHANGED <<listed, requests, unheard>>

\* Mutant: the state alone is looked at.
SkipState(request) == ~Downloading

Skip(request) == request.overdue \/ ~Downloading

\* get_products_ack() of an answer that is not skipped: the download is done.
\* What becomes of the products is left to the controller.
ProductsAck(request, products) ==
    /\ up
    /\ request \in requests
    /\ ~Skip(request)
    /\ request.products \subseteq products
    /\ products \subseteq listed
    /\ requests' = requests \ {request}
    /\ download' = "DONE"
    /\ connection_status' = "READY"
    /\ unheard' = FALSE
    /\ UNCHANGED <<listed, up, wanted>>

ProductsAckSkipped(request) ==
    /\ up
    /\ request \in requests
    /\ Skip(request)
    /\ requests' = requests \ {request}
    /\ UNCHANGED <<listed, connection_status, up, download, wanted, unheard>>

\* Mutant: a request is not repeated.
RetryNever(request) ==
    /\ requests' = requests \ {request}
    /\ UNCHANGED connection_status

\* The request is repeated by download(), whichever one has failed.
Retry(request) ==
    IF Downloading
    THEN /\ requests' = (requests \ {request}) \union {NewProductsRequest}
         /\ connection_status' = "DOWNLOADING"
    ELSE /\ requests' = requests \ {request}
         /\ UNCHANGED connection_status

\* 403, 429, a server error, an error of the connection, or an answer that
\* says no.
ProductsError(request) ==
    /\ request \in requests
    /\ Retry(request)
    /\ unheard' = (unheard /\ ~Downloading)
    /\ UNCHANGED <<listed, up, download, wanted>>

\* Any other client error: no handler is called.
ProductsClientError(request) ==
    /\ ClientErrors
    /\ up
    /\ request \in requests
    /\ requests' = requests \ {request}
    /\ unheard' = (unheard \/ ~Skip(request))
    /\ UNCHANGED <<listed, connection_status, up, download, wanted>>

\* The exchange lists a product.
List(product) ==
    /\ product \notin listed
    /\ listed' = listed \union {product}
    /\ UNCHANGED restVars
=============================================================================
