---------------------------- MODULE MCAdmission ----------------------------
(***************************************************************************)
(* A request's way to a channel, one half per behaviour: the limiters, of  *)
(* each kind, for two clients of two processes one of whose clocks is a    *)
(* tick behind, and routing with retries (MCRelay).  They share no state:  *)
(* part names the half a behaviour is about, and the other stays as it     *)
(* begins.                                                                 *)
(***************************************************************************)
EXTENDS MCRelay, Limiter, TLC

VARIABLE part

MCServerOf == 1 :> "s1" @@ 2 :> "s2"
MCBehind == "s1" :> 0 @@ "s2" :> 1

AdmissionInit ==
    /\ part \in {"limits", "relay"}
    /\ RelayInit /\ LimiterInit
    /\ part = "relay" => limiter = NewAPILimiter(0, FALSE)

Limits == part = "limits" /\ LimiterNext /\ UNCHANGED <<part, vars>>

Relays == part = "relay" /\ RelayNext /\ UNCHANGED <<part, limVars>>

AdmissionSpec == AdmissionInit /\ [][Limits \/ Relays]_<<part, vars, limVars>>
=============================================================================
