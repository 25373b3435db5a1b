------------------------------- MODULE Stores -------------------------------
(***************************************************************************)
(* The two stores of the program that are shared by processes and must     *)
(* survive them: the checkpoints of an input (StateStore) and the deployed *)
(* credentials (Deployment).  They share no file and no lock, so a         *)
(* behaviour works on one of them and leaves the other as it was.          *)
(***************************************************************************)
EXTENDS StateStore

CONSTANTS Name, Secret, Digest, Path, Apps, Entered, Authority, MaxChanges, MaxDeaths

VARIABLES
  part,                        \* the store this behaviour works on
  envelopes, key, secret, receipt, importing, process,
  origin, byHand, torn, highest, conflict, used, deaths
\* With its theorems, which hold of any instance.
D == INSTANCE DeploymentProofs WITH directory <- envelopes
ASSUME CredentialsAssumption == D!ConstantsAreSound
credentials == <<envelopes, key, secret, receipt, importing, process,
                 origin, byHand, torn, highest, conflict, used, deaths>>

StoresInit == part \in {"checkpoint", "credentials"} /\ Init /\ D!Init

Checkpoints == part = "checkpoint" /\ Next /\ UNCHANGED <<part, credentials>>
Credentials == part = "credentials" /\ D!Next /\ UNCHANGED <<part, vars>>
StoresNext == Checkpoints \/ Credentials

StoresSpec == StoresInit /\ [][StoresNext]_<<part, vars, credentials>>

-----------------------------------------------------------------------------
\* Deployed credentials, in every interleaving of daemon, command line and Deployment Server and
\* whatever stopped between two writes: no receipt without its secret, no revision rolled back,
\* no conflict reported without a cause, and one key for all.
ImportsAreSound == D!ImportsAreSound

=============================================================================
