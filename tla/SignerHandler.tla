--------------------------- MODULE SignerHandler ---------------------------
(***************************************************************************)
(* internal/signer/handler.go and cmd/signer/main.go: gRPC handlers, one   *)
(* goroutine per request, around one SessionManager, and the main          *)
(* goroutine that shuts the process down.  SignOrder takes the manager's   *)
(* lock twice, in Sign and again in Status, so it is two steps.            *)
(***************************************************************************)
EXTENDS SessionManager, FiniteSetsExt

CONSTANT Requests      \* SignOrder calls, each made at most once

VARIABLES rpc,         \* where each request is, and what it was answered
          main,        \* where main() is
          atShutdown   \* history: the activation Destroy ended at shutdown

hvars == <<vars, rpc, main, atShutdown>>

(* Stage, order value, activation that signed it, code and address sent.   *)
Entry(pc, value, signedIn, status, addr) ==
  [pc |-> pc, value |-> value, signedIn |-> signedIn, status |-> status, addr |-> addr]
NotCalled == Entry("idle", 0, 0, "none", NoKey)

HInit ==
  /\ Init
  /\ rpc = [r \in Requests |-> NotCalled]
  /\ main = "serving"
  /\ atShutdown = 0

Running   == main \notin {"stopped", "exited"}
Accepting == main \in {"serving", "signalled", "destroyed"}

(* A call with an order, a domain and a parsable maker_amount.             *)
Call(r, v) ==
  /\ Accepting /\ rpc[r].pc = "idle"
  /\ rpc' = [rpc EXCEPT ![r] = Entry("received", v, 0, "none", NoKey)]
  /\ UNCHANGED <<vars, main, atShutdown>>

Reply(r, status) ==
  rpc' = [rpc EXCEPT ![r] = Entry("replied", rpc[r].value, 0, status, NoKey)]

CallInvalid(r) ==
  /\ Accepting /\ rpc[r].pc = "idle"
  /\ Reply(r, "invalid_argument")
  /\ UNCHANGED <<vars, main, atShutdown>>

Refuse(r, status, sign) ==
  /\ Running /\ rpc[r].pc = "received"
  /\ sign
  /\ Reply(r, status)
  /\ UNCHANGED <<main, atShutdown>>

MutRefuseExpired(r) == Refuse(r, "failed_precondition", SignNoSession)
MutRefuseInternal(r) == Refuse(r, "unknown", SignFails(rpc[r].value))
RefuseNoSession(r) == Refuse(r, "failed_precondition", SignNoSession)
RefuseExpired(r)   == Refuse(r, "failed_precondition", SignExpired)
RefuseOverLimit(r) == Refuse(r, "resource_exhausted", SignOverLimit(rpc[r].value))
RefuseInternal(r)  == Refuse(r, "internal", SignFails(rpc[r].value))

Signed(r) ==
  /\ Running /\ rpc[r].pc = "received"
  /\ SignOK(rpc[r].value)
  /\ rpc' = [rpc EXCEPT ![r] = Entry("signed", rpc[r].value, Current, "none", NoKey)]
  /\ UNCHANGED <<main, atShutdown>>

(* h.session.Status() for SignerAddress, after Sign has unlocked.          *)
ReadAddress(r) ==
  /\ Running /\ rpc[r].pc = "signed"
  /\ rpc' = [rpc EXCEPT ![r] =
                Entry("replied", rpc[r].value, rpc[r].signedIn, "ok", StatusAddress)]
  /\ UNCHANGED <<vars, main, atShutdown>>

(* main(): the signal, session.Destroy(), GracefulStop() which lets the    *)
(* requests in flight finish, and the return with memguard.Purge.          *)
Signal == main = "serving" /\ main' = "signalled" /\ UNCHANGED <<vars, rpc, atShutdown>>

MutShutdownDestroy ==
  main = "signalled" /\ main' = "destroyed" /\ atShutdown' = Current /\ UNCHANGED <<vars, rpc>>
ShutdownDestroy ==
  /\ main = "signalled" /\ main' = "destroyed"
  /\ Destroy
  /\ atShutdown' = Current
  /\ UNCHANGED rpc

BeginGracefulStop == main = "destroyed" /\ main' = "draining" /\ UNCHANGED <<vars, rpc, atShutdown>>

MutStopWaitsForAll ==
  /\ main = "draining" /\ main' = "stopped"
  /\ \A r \in Requests : rpc[r].pc = "replied"
  /\ Destroy
  /\ UNCHANGED <<rpc, atShutdown>>
FinishGracefulStop ==
  /\ main = "draining" /\ main' = "stopped"
  /\ \A r \in Requests : rpc[r].pc \in {"idle", "replied"}
  /\ Destroy
  /\ UNCHANGED <<rpc, atShutdown>>

(* srv.Serve() returns an error: os.Exit(1), whatever is in flight.        *)
ServeFails ==
  /\ main = "serving" /\ main' = "exited"
  /\ Destroy
  /\ UNCHANGED <<rpc, atShutdown>>

(* The owner of the session in the same process, at any time it runs.      *)
Owner ==
  /\ Running
  /\ \/ \E k \in Keys, lim \in Limits : Activate(k, lim)
     \/ ActivateInvalid
  /\ UNCHANGED <<rpc, main, atShutdown>>

Clock == Tick /\ UNCHANGED <<rpc, main, atShutdown>>

Handle(r) ==
  \/ RefuseNoSession(r) \/ RefuseExpired(r) \/ RefuseOverLimit(r) \/ RefuseInternal(r)
  \/ Signed(r)
  \/ ReadAddress(r)

Shutdown == ShutdownDestroy \/ BeginGracefulStop \/ FinishGracefulStop

HNext ==
  \/ \E r \in Requests : CallInvalid(r) \/ Handle(r) \/ \E v \in Values : Call(r, v)
  \/ Signal \/ Shutdown \/ ServeFails
  \/ Owner
  \/ Clock

HSpec == HInit /\ [][HNext]_hvars

(* The Go scheduler runs every goroutine that can run: the handlers in     *)
(* flight and main once it has been signalled.  Nothing is assumed of      *)
(* clients, of the owner or of the clock.                                  *)
FairHSpec == HSpec /\ WF_hvars(Shutdown) /\ \A r \in Requests : WF_hvars(Handle(r))

-----------------------------------------------------------------------------
Statuses == {"none", "ok", "invalid_argument", "internal", "failed_precondition", "resource_exhausted"}
RpcState == [pc : {"idle", "received", "signed", "replied"}, value : Int, signedIn : Nat,
             status : Statuses, addr : Keys \cup {NoKey}]

(* Type invariant of the requests, of main and of the manager below them.  *)
HTypeOK ==
  /\ TypeOK
  /\ rpc \in [Requests -> RpcState]
  /\ main \in {"serving", "signalled", "destroyed", "draining", "stopped", "exited"}
  /\ atShutdown \in Nat

SignedUnder(i) == {r \in Requests : rpc[r].signedIn = i}

(* The live session has charged each request that got a signature from it, *)
(* and no other, once, and with its maker_amount as it was parsed: with    *)
(* the sign that the signature itself does not see.                        *)
ChargedOncePerSignature ==
  enclave # NoKey =>
    valueUsed = MapThenSumSet(LAMBDA r : rpc[r].value, SignedUnder(Current))

(* What is true of SignerAddress, which is read after Sign has unlocked:   *)
(* an answered order names the key that signed it, a key activated later,  *)
(* or nothing, but never the key of an activation that had already been    *)
(* replaced.                                                               *)
AddressNeverOutdated ==
  \A r \in Requests : rpc[r].status = "ok" =>
    rpc[r].addr \in {NoKey} \cup {grants[i].key : i \in rpc[r].signedIn .. Current}

(* The inductive form: a signature always comes from an activation of the  *)
(* history, for an order value the manager was asked for.                  *)
HIInv ==
  /\ IInv /\ HTypeOK /\ AddressNeverOutdated
  /\ \A r \in Requests :
       /\ rpc[r].pc = "received" => rpc[r].value \in Values
       /\ rpc[r].status = "ok" => rpc[r].pc = "replied"
       /\ rpc[r].pc = "signed" \/ rpc[r].status = "ok" => rpc[r].signedIn \in 1 .. Current

(* A session that has not expired is lost only to the shutdown of the      *)
(* process: never to a refused order, a failed signing or a failed         *)
(* activation.                                                             *)
LiveSessionKept ==
  [][enclave # NoKey /\ ~IsExpired /\ enclave' = NoKey => main' # main]_hvars

(* After the Destroy of the shutdown the requests still in flight, or      *)
(* accepted before GracefulStop, get no signature from the session that    *)
(* was destroyed.                                                          *)
NoSignatureAfterDestroy ==
  [][\A r \in Requests :
       main \in {"destroyed", "draining"} /\ rpc'[r].signedIn # rpc[r].signedIn
         => rpc'[r].signedIn > atShutdown]_hvars

(* Its inductive form: a key held after that Destroy is of a later         *)
(* activation, and a request names none before it is signed.               *)
Unsigned == \A r \in Requests : rpc[r].pc \in {"idle", "received"} => rpc[r].signedIn = 0
Revoked ==
  main \in {"destroyed", "draining"} =>
    atShutdown <= Current /\ (enclave # NoKey => atShutdown < Current)

(* The inductive form of ChargedOncePerSignature: no request names a later *)
(* activation, so a new one starts with nothing charged and nobody signed. *)
Attributed ==
  /\ \A r \in Requests : rpc[r].signedIn <= Current
  /\ Current > 0 => IsFiniteSet(SignedUnder(Current))
ChargeInv == HIInv /\ Unsigned /\ Attributed /\ ChargedOncePerSignature

(* Every order the server accepted is answered, unless the server dies.    *)
EveryCallAnswered ==
  \A r \in Requests : rpc[r].pc = "received" ~> rpc[r].pc = "replied" \/ main = "exited"

(* A signal always ends the process: draining cannot wait for ever.        *)
ShutdownCompletes == main = "signalled" ~> main = "stopped"

(* Handlers and main only ever use the manager through its operations.     *)
ImplementsManager == Spec
=============================================================================
