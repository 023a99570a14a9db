------------------------------- MODULE ManagedCli -------------------------------
(* The command-line Hara that Desktop keeps under ~/.hara/bin (src-tauri/src/     *)
(* lib.rs). Every launch synchronizes it with the CLI in the application bundle,  *)
(* and the user may install it. A receipt says which file is Desktop's own: a     *)
(* file is managed when the receipt has its digest. The file and the receipt are  *)
(* replaced by two renames, and several processes of Desktop, of different        *)
(* releases, may do so at the same time, or die between the two.                  *)
(*                                                                                *)
(* A file is its contents: a release's CLI, a file of the user's own, one that    *)
(* Desktop does not touch (a link, a directory, too large), or none.              *)
EXTENDS Naturals

CONSTANTS
  Procs,      \* processes of Desktop
  Releases,   \* releases, each with its bundled CLI
  Own, Odd,   \* a file of the user's own; one that is not a bounded regular file
  None,       \* no file, no receipt, no release
  Elsewhere,  \* a receipt that names another path
  MaxEdits    \* bound on what the user does to the file

ASSUME ManagedCliAssumption ==
  /\ MaxEdits \in Nat
  /\ {Own, Odd, None, Elsewhere} \intersect Releases = {}
  /\ Own \notin {Odd, None, Elsewhere} /\ Odd \notin {None, Elsewhere} /\ None # Elsewhere

VARIABLES
  cli,        \* the file at the managed path
  receipt,    \* the digest in the receipt, when that names the path
  bundle,     \* the release of a process, or None when it does not run
  work,       \* how far a process is in a synchronization or an installation
  asked,      \* processes in which the user has asked for the installation
  digest,     \* the digest that a process is to write
  edits,      \* what the user has done to the file
  undisturbed \* history: processes at work while nobody else changed anything

cliVars == <<cli, receipt, bundle, work, asked, digest, edits, undisturbed>>

Files == Releases \cup {Own, Odd, None}
CliSteps == {"idle", "copying", "moving", "recovering", "receipt", "verifying"}
ManagedCliTypeOK ==
  /\ cli \in Files /\ receipt \in Releases \cup {None, Elsewhere}
  /\ bundle \in [Procs -> Releases \cup {None}] /\ work \in [Procs -> CliSteps]
  /\ digest \in [Procs -> Releases \cup {None}]
  /\ asked \subseteq Procs /\ undisturbed \subseteq Procs /\ edits \in 0..MaxEdits

--------------------------------------------------------------------------------
\* command_line_hara_status_at.
Blocked == cli = Odd
Present == cli \in Releases \cup {Own}
Managed == Present /\ receipt = cli
Current(p) == cli = bundle[p]

InitManagedCli ==
  /\ cli \in Files /\ receipt \in {None, Elsewhere, cli} \ {Own, Odd}
  /\ bundle = [p \in Procs |-> None] /\ work = [p \in Procs |-> "idle"]
  /\ digest = [p \in Procs |-> None]
  /\ asked = {} /\ undisturbed = {} /\ edits = 0

\* Desktop starts and synchronizes (App.tsx, synchronize_command_line_hara_at): from the
\* status it goes on to recover the receipt of this very bundle, to install over nothing
\* or over its own file, or it leaves what is there.
Recovers(p) == Current(p) /\ ~Managed /\ receipt \notin {None, Elsewhere}
Replaces(p) == ~Current(p) /\ (~Present \/ Managed)
StartDesktop(p, b) ==
  /\ bundle[p] = None
  /\ bundle' = [bundle EXCEPT ![p] = b]
  /\ UNCHANGED <<cli, receipt, work, asked, digest, edits, undisturbed>>
Synchronize(p) ==
  /\ bundle[p] # None /\ work[p] = "idle" /\ ~Blocked
  /\ work' = [work EXCEPT ![p] = CASE Recovers(p) -> "recovering"
                                   [] Replaces(p) -> "copying"
                                   [] OTHER -> "verifying"]
  /\ asked' = asked \ {p} /\ undisturbed' = undisturbed \cup {p}
  /\ UNCHANGED <<cli, receipt, bundle, digest, edits>>

\* The user installs (installCommandLineHara in App.tsx).
Install(p) ==
  /\ bundle[p] # None /\ work[p] = "idle" /\ ~Blocked /\ ~(Current(p) /\ Managed)
  /\ work' = [work EXCEPT ![p] = "copying"]
  /\ asked' = asked \cup {p} /\ undisturbed' = undisturbed \cup {p}
  /\ UNCHANGED <<cli, receipt, bundle, digest, edits>>

\* install_command_line_hara_at looks at the file again and copies the bundle beside it,
Copy(p) ==
  /\ work[p] = "copying"
  /\ work' = [work EXCEPT ![p] = IF Blocked THEN "idle" ELSE "moving"]
  /\ digest' = [digest EXCEPT ![p] = bundle[p]]
  /\ UNCHANGED <<cli, receipt, bundle, asked, edits, undisturbed>>
\* renames the copy over the file,
Move(p) ==
  /\ work[p] = "moving"
  /\ cli' = bundle[p]
  /\ work' = [work EXCEPT ![p] = "receipt"]
  /\ undisturbed' = undisturbed \cap {p}
  /\ UNCHANGED <<receipt, bundle, asked, digest, edits>>
\* The recovery takes the digest of the file, which must still be that of the bundle.
\* Mutant of Recover: the file is not compared again.
RecoverAny(p) ==
  /\ work[p] = "recovering"
  /\ digest' = [digest EXCEPT ![p] = cli]
  /\ work' = [work EXCEPT ![p] = "receipt"]
  /\ UNCHANGED <<cli, receipt, bundle, asked, edits, undisturbed>>
Recover(p) ==
  /\ work[p] = "recovering"
  /\ digest' = [digest EXCEPT ![p] = IF Current(p) THEN cli ELSE @]
  /\ work' = [work EXCEPT ![p] = IF Current(p) THEN "receipt" ELSE "idle"]
  /\ UNCHANGED <<cli, receipt, bundle, asked, edits, undisturbed>>
\* and either renames a new receipt over the receipt (write_managed_cli_receipt).
WriteReceipt(p) ==
  /\ work[p] = "receipt"
  /\ receipt' = digest[p]
  /\ work' = [work EXCEPT ![p] = "verifying"]
  /\ undisturbed' = undisturbed \cap {p}
  /\ UNCHANGED <<cli, bundle, asked, digest, edits>>
\* The status is read once more and shown.
Verify(p) ==
  /\ work[p] = "verifying"
  /\ work' = [work EXCEPT ![p] = "idle"]
  /\ UNCHANGED <<cli, receipt, bundle, asked, digest, edits, undisturbed>>

\* A process ends or dies, between any two steps.
Stop(p) ==
  /\ bundle[p] # None
  /\ bundle' = [bundle EXCEPT ![p] = None] /\ work' = [work EXCEPT ![p] = "idle"]
  /\ UNCHANGED <<cli, receipt, asked, digest, edits, undisturbed>>

\* The user puts a file there, of his own or of a release, or removes it.
Edit(file) ==
  /\ edits < MaxEdits /\ file # cli
  /\ cli' = file /\ edits' = edits + 1 /\ undisturbed' = {}
  /\ UNCHANGED <<receipt, bundle, work, asked, digest>>

NextManagedCli ==
  \/ \E p \in Procs :
       \/ \E b \in Releases : StartDesktop(p, b)
       \/ Synchronize(p) \/ Install(p) \/ Copy(p) \/ Move(p) \/ Recover(p)
       \/ WriteReceipt(p) \/ Verify(p) \/ Stop(p)
  \/ \E file \in Files : Edit(file)

SpecManagedCli == InitManagedCli /\ [][NextManagedCli]_cliVars

--------------------------------------------------------------------------------
(* Properties. *)

\* A file of the user's own is Desktop's to replace only when he asks for it, or when he
\* put it there after a synchronization had looked.
UsersFileStays ==
  [][cli = Own /\ cli' # Own =>
       \/ edits' # edits
       \/ \E p \in Procs : work[p] = "moving" /\ (p \in asked \/ p \notin undisturbed)]_cliVars

\* Desktop does not lose hold of the file: a synchronization that nobody disturbed, of
\* the release that the file is of, ends with the file managed if the receipt names it,
\* whatever died between the two renames before. No receipt is for a file of the user's.
HoldIsRecovered ==
  [][\A p \in Procs :
       work[p] = "verifying" /\ work'[p] = "idle" /\ bundle'[p] # None
         /\ p \in undisturbed /\ Current(p) /\ receipt \notin {None, Elsewhere}
       => Managed]_cliVars

\* Both: the file is the user's where it is his, and Desktop's where it is Desktop's.
CliIsTheUsers == UsersFileStays /\ HoldIsRecovered
================================================================================
