------------------------------- MODULE Render -------------------------------
(***************************************************************************)
(* The Render client: the address cache of cmd/fishmesh-gateway/           *)
(* render_client.go, which lets one dial resolve for all, and the call of  *)
(* internal/serving/tokenization that dials through it.  A caller is a     *)
(* request; its step is one critical section of renderAddressResolver.mu,  *)
(* one DNS lookup, one dial or one HTTP exchange.  Expiry of the cached    *)
(* address is an event of its own, independent of the other clocks.        *)
(*                                                                         *)
(* Left out: a Render URL that names an address, or is reached through a   *)
(* proxy, is dialled without the cache; and http.Transport may keep a dial *)
(* going whose request has left: here that request stays as long.          *)
(***************************************************************************)
EXTENDS Integers

CONSTANTS
  Callers,       \* requests that may tokenize at the same time
  Addresses,     \* addresses the Render Service may have
  NoAddress,     \* ""
  MaxMoves       \* bound: changes of the Service's address

ASSUME RenderConstants == NoAddress \notin Addresses /\ MaxMoves \in Nat

VARIABLES
  service, moves,       \* external: the address that answers, changes so far
  address, resolving,   \* renderAddressResolver: address and resolving
  idle,                 \* idle connections of the client: "none", "some", "plenty"
  at, target            \* per caller: control point, address being dialled

render == <<service, moves, address, resolving, idle, at, target>>

\* "ok", "degrade" and "reject" are what Tokenize tells the request path: a profile,
\* an error that only costs the locality, an error of the request or its client gone.
Failures == {"degrade", "reject"}
Verdicts == {"ok"} \cup Failures
Points   == {"out", "dial", "wait", "lookup", "connect", "post"} \cup Verdicts

InitRender ==
  /\ service \in Addresses /\ moves = 0
  /\ address = NoAddress /\ resolving = FALSE /\ idle \in {"none", "plenty"}
  /\ at = [c \in Callers |-> "out"] /\ target = [c \in Callers |-> NoAddress]

Move ==
  /\ moves < MaxMoves /\ moves' = moves + 1
  /\ \E a \in Addresses \ {service} : service' = a
  /\ idle' = "none"                                  \* the old Pod is gone
  /\ UNCHANGED <<address, resolving, at, target>>

Expire ==
  /\ address # NoAddress /\ address' = NoAddress
  /\ UNCHANGED <<service, moves, resolving, idle, at, target>>

\* Tokenize up to client.Do: oversized and malformed bodies are the request's fault.
Tokenize(c) ==
  /\ at[c] = "out"
  /\ \E p \in {"reject", "dial", "post"} :
       /\ p = "dial" => idle # "plenty"
       /\ p = "post" => idle # "none"
       /\ at' = [at EXCEPT ![c] = p]
  /\ UNCHANGED <<service, moves, address, resolving, idle, target>>

\* cachedAddress: a cached address, another dial's lookup to wait for, or our own.
CachedAddress(c) ==
  /\ at[c] = "dial"
  /\ IF address # NoAddress
     THEN /\ at' = [at EXCEPT ![c] = "connect"] /\ target' = [target EXCEPT ![c] = address]
          /\ UNCHANGED resolving
     ELSE /\ at' = [at EXCEPT ![c] = IF resolving THEN "wait" ELSE "lookup"]
          /\ resolving' = TRUE /\ UNCHANGED target
  /\ UNCHANGED <<service, moves, address, idle>>

\* close(done) wakes every waiter, which looks at the cache again.
Bug_Wake(c) == at
Wake(c) == [x \in Callers |-> IF at[x] = "wait" THEN "dial" ELSE at[x]]

\* lookupIP answers, late enough to be out of date, or fails or is cancelled.
LookupReturns(c) ==
  /\ at[c] = "lookup" /\ resolving' = FALSE
  /\ \/ \E a \in Addresses : /\ address' = a /\ target' = [target EXCEPT ![c] = a]
                               /\ at' = [Wake(c) EXCEPT ![c] = "connect"]
     \/ \E v \in Failures : /\ at' = [Wake(c) EXCEPT ![c] = v]
                             /\ UNCHANGED <<address, target>>
  /\ UNCHANGED <<service, moves, idle>>

\* Only the address that failed is dropped, not one resolved since.
invalidate(a) == IF address = a THEN NoAddress ELSE address

\* The dial; a refused one invalidates the address and fails the call.
Connect(c) ==
  /\ at[c] = "connect" /\ target' = [target EXCEPT ![c] = NoAddress]
  /\ \/ target[c] = service /\ at' = [at EXCEPT ![c] = "post"] /\ UNCHANGED address
     \/ \E v \in Failures : at' = [at EXCEPT ![c] = v] /\ address' = invalidate(target[c])
  /\ UNCHANGED <<service, moves, resolving, idle>>

\* The exchange, readBounded and validateResponses; IsTransient sorts the failures.
Post(c) ==
  /\ at[c] = "post"
  /\ \E v \in Verdicts :
       /\ at' = [at EXCEPT ![c] = v]
       /\ idle' = IF v = "ok" /\ idle = "none" THEN "some" ELSE idle
  /\ UNCHANGED <<service, moves, address, resolving, target>>

\* The caller's context ends while it waits for another dial.
GiveUp(c) ==
  /\ at[c] = "wait" /\ \E v \in Failures : at' = [at EXCEPT ![c] = v]
  /\ UNCHANGED <<service, moves, address, resolving, idle, target>>

RenderStep(c) == CachedAddress(c) \/ LookupReturns(c) \/ Connect(c) \/ Post(c)
=============================================================================
