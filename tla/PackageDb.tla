----------------------------- MODULE PackageDb -----------------------------
(***************************************************************************)
(* What the package tools promise of the package database: a command that  *)
(* is accepted takes effect in one step, whole, and ends with status 0;    *)
(* one that is refused says so with its status and leaves the database as  *)
(* it is.  PkgTools implements this with directories that it creates, sets *)
(* aside and removes one after the other, while no command is interrupted. *)
(***************************************************************************)
EXTENDS Naturals

CONSTANTS
  Archives, Packages, Pkg, Name, Ships   \* as in PkgTools

VARIABLES
  db,      \* for every installed package, the paths that it provides
  asked,   \* the last command and its operand
  want,    \* what the command has still to do: archives to put into the
           \* database, packages to drop from it
  busy,    \* a command runs
  status   \* exit status of the last command

dvars == <<db, asked, want, busy, status>>

Installed == DOMAIN db

\* The installed versions of the package that archive a holds.
Versions(a) == {p \in Installed : Name[p] = Name[Pkg[a]]}

Nothing == [put |-> {}, drop |-> {}]

\* What db becomes.
Changed(w) ==
  LET new == {Pkg[a] : a \in w.put} IN
  [p \in (Installed \ w.drop) \cup new |->
     IF p \in new THEN UNION {Ships[a] : a \in {b \in w.put : Pkg[b] = p}} ELSE db[p]]

Init ==
  /\ db = [p \in {} |-> {}]
  /\ asked \in {<<"removepkg", <<Pkg[a], "cur">>>> : a \in Archives}
  /\ want = Nothing
  /\ busy = FALSE
  /\ status = 0

Refuse(command, s) ==
  /\ ~busy
  /\ asked' = command /\ status' = s
  /\ UNCHANGED <<db, want, busy>>

Accept(command, put, drop) ==
  /\ ~busy
  /\ asked' = command /\ want' = [put |-> put, drop |-> drop] /\ busy' = TRUE
  /\ UNCHANGED <<db, status>>

\* installpkg, with -r where reinstall is TRUE.
Install(a, reinstall) ==
  \/ /\ Pkg[a] \in Installed /\ ~reinstall
     /\ Refuse(<<"installpkg", a>>, 2)
  \/ /\ Pkg[a] \notin Installed \/ reinstall
     /\ Accept(<<"installpkg", a>>, {a}, {})

\* removepkg of a package, or of a copy of it set aside, of which there is none.
Remove(p, k) ==
  \/ /\ p \in Installed /\ k = "cur"
     /\ Accept(<<"removepkg", <<p, k>>>>, {}, {p})
  \/ /\ p \notin Installed \/ k # "cur"
     /\ Refuse(<<"removepkg", <<p, k>>>>, 2)

\* upgradepkg, with -i and -r.
Upgrade(a, install, reinstall) ==
  \/ /\ IF Versions(a) = {} THEN install ELSE Pkg[a] \notin Installed \/ reinstall
     /\ Accept(<<"upgradepkg", a>>, {a}, Versions(a) \ {Pkg[a]})
  \/ /\ IF Versions(a) = {} THEN ~install ELSE Pkg[a] \in Installed /\ ~reinstall
     /\ Refuse(<<"upgradepkg", a>>, 1)

\* The command takes effect: an upgrade exchanges all the versions for one.
TakeEffect ==
  /\ want # Nothing
  /\ db' = Changed(want) /\ want' = Nothing
  /\ UNCHANGED <<asked, busy, status>>

\* A command whose effect has been made ends well.
Reply ==
  /\ busy /\ want = Nothing
  /\ busy' = FALSE /\ status' = 0
  /\ UNCHANGED <<db, asked, want>>

Next ==
  \/ \E a \in Archives :
       \/ \E r \in BOOLEAN : Install(a, r)
       \/ \E k \in {"cur", "old"} : Remove(Pkg[a], k)
       \/ \E i, r \in BOOLEAN : Upgrade(a, i, r)
  \/ TakeEffect
  \/ Reply

Spec == Init /\ [][Next]_dvars
=============================================================================
