------------------------------ MODULE MCUsers ------------------------------
(***************************************************************************)
(* Two emails, one of them in two spellings, and two requests at a time;   *)
(* one id more than there are emails, so that a new user always finds one. *)
(* A profile change carries one field, or the email and the flag.  Ids and *)
(* requests are interchangeable.                                           *)
(***************************************************************************)
EXTENDS Users, TLC

MCNormal == [e \in Spellings |-> IF e = "A@mail" THEN "a@mail" ELSE e]

Nothing == [email |-> Unset, password |-> Unset, active |-> Unset]

MCPatches ==
    {[Nothing EXCEPT !.email = e] : e \in Emails \cup {Null}}
    \cup {[Nothing EXCEPT !.password = p] : p \in Passwords}
    \cup {[Nothing EXCEPT !.active = a] : a \in {Yes, No, Null}}
    \cup {[Nothing EXCEPT !.email = "a@mail", !.active = No]}

Symmetry == Permutations(Ids) \cup Permutations(Sessions)

=============================================================================
