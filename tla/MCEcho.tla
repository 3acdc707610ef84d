------------------------------- MODULE MCEcho -------------------------------
(* Instances of the echo programs for TLC.                                    *)
EXTENDS Echo

(* Two short lines; one longer than the buffer; one that fills it exactly; an *)
(* unfinished one; a zero in a line; nothing.                                 *)
SomeInputs ==
    {<< "n", "a", "n" >>, << "a", "b", "c", "n" >>, << "a", "b", "c" >>, << "a" >>,
     << "a", Zero, "n" >>, << >>}

=============================================================================
