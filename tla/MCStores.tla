------------------------------ MODULE MCStores ------------------------------
(* Checkpoints: two handles and three values in a line, with room for two  *)
(* replacements, a restore that brings a value back under a new revision,  *)
(* a stale caller that saw the value before, and the revision's limit.     *)
(* Credentials: two names, two revisions of the first, and an app whose    *)
(* versions bring both revisions, go back to the first, disagree about the *)
(* second, are cut short or are sealed for another installation.           *)
EXTENDS Stores
MCValue == 1 .. 3
MCFirstValue == {1}
MCOrdinary == {<<1, 2>>, <<2, 3>>}
MCActivation == {<<1, 3>>}

MCEntered == {[text |-> "a", endings |-> 1], [text |-> "", endings |-> 1]}
Request(name, revision, text, nonce) ==
  [name |-> name, revision |-> revision, entered |-> [text |-> text, endings |-> 1],
   recipients |-> <<"daemon", "cli">>, signer |-> "authority", nonce |-> nonce, cut |-> FALSE]
First == Request(1, 1, "a", 1)
Second == Request(1, 2, "b", 2)
SecondAgain == Request(1, 2, "a", 3)
Other == Request(2, 1, "a", 4)
Foreign == [Other EXCEPT !.recipients = <<"daemon">>]
Unsealable == [Other EXCEPT !.recipients = <<"cli", "cli">>]
MCApps == {<<None, Unsealable>>, <<First, Other>>, <<Second, First>>, <<SecondAgain, Second>>,
           <<Foreign, [First EXCEPT !.cut = TRUE]>>}
=============================================================================
