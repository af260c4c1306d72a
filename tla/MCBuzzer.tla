------------------------------ MODULE MCBuzzer ------------------------------
(* Buzzer as TLC checks it: the constant is in MCBuzzer.cfg.               *)
EXTENDS Buzzer
=============================================================================
