------------------------------- MODULE MCTcp -------------------------------
(* Instances of Tcp for TLC. *)
EXTENDS Tcp, TLC

NearWrap == (Client :> 14 @@ Server :> 15)
OneWay == (Client :> 2 @@ Server :> 0)
Talk == (Client :> 2 @@ Server :> 1)
=============================================================================
