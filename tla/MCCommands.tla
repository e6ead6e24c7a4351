----------------------------- MODULE MCCommands ------------------------------
(***************************************************************************)
(* A small instance of what a command does on its own: its report          *)
(* (Report), the bytes that it moves (Transfer), the applications of a     *)
(* device (Apps), the archives that it packs (Packages), the signals       *)
(* (Signals) and the installations (Install) that it asks for.  The six    *)
(* share no state: a behaviour is of one of them, and the variables of the *)
(* others stay as they are.                                                *)
(***************************************************************************)
EXTENDS Report, Transfer, Apps, Packages, Signals, Install

VARIABLE about  \* what the behaviour is of

allVars == <<about, vars, transferVars, appsVars, packagesVars, signalVars, installVars>>

MCAsset == <<"a", "b">>

ReportIdle == Init /\ ~ listening

TransferIdle ==
  /\ task = [op |-> "none"] /\ from = <<>> /\ to = <<>> /\ was = <<>>
  /\ written = 0 /\ step = "idle" /\ assets = <<>> /\ image = <<>> /\ outcome = "none"

AppsIdle ==
  /\ mounted = {} /\ folder = [f \in Folders |-> [n \in Names |-> "none"]]
  /\ before = folder /\ request = [op |-> "none"] /\ pc = "idle" /\ at = "flash"
  /\ left = {} /\ removed = Nothing /\ error = FALSE /\ complete = FALSE
  /\ thread = "none" /\ ran = "none" /\ answer = "none"

SignalsIdle == SignalsInit /\ mode = "gone" /\ linked = "none"

InstallIdle ==
  InstallInit /\ document = [f \in Projects |-> Absent] /\ plugged = NoBoard
              /\ connected = NoBoard

MCInit ==
  \/ about = "report" /\ Init /\ TransferIdle /\ AppsIdle /\ PackagesInit
     /\ SignalsIdle /\ InstallIdle
  \/ about = "transfer" /\ TransferInit /\ ReportIdle /\ AppsIdle /\ PackagesInit
     /\ SignalsIdle /\ InstallIdle
  \/ about = "apps" /\ AppsInit /\ ReportIdle /\ TransferIdle /\ PackagesInit
     /\ SignalsIdle /\ InstallIdle
  \/ about = "packages" /\ PackagesInit /\ ReportIdle /\ TransferIdle /\ AppsIdle
     /\ SignalsIdle /\ InstallIdle
  \/ about = "signals" /\ SignalsInit /\ ReportIdle /\ TransferIdle /\ AppsIdle
     /\ PackagesInit /\ InstallIdle
  \/ about = "install" /\ InstallInit /\ ReportIdle /\ TransferIdle /\ AppsIdle
     /\ PackagesInit /\ SignalsIdle

MCNext ==
  /\ UNCHANGED about
  /\ \/ /\ about = "report" /\ Next
        /\ UNCHANGED <<transferVars, appsVars, packagesVars, signalVars, installVars>>
     \/ /\ about = "transfer" /\ TransferNext
        /\ UNCHANGED <<vars, appsVars, packagesVars, signalVars, installVars>>
     \/ /\ about = "apps" /\ AppsNext
        /\ UNCHANGED <<vars, transferVars, packagesVars, signalVars, installVars>>
     \/ /\ about = "packages" /\ PackagesNext
        /\ UNCHANGED <<vars, transferVars, appsVars, signalVars, installVars>>
     \/ /\ about = "signals" /\ SignalsNext
        /\ UNCHANGED <<vars, transferVars, appsVars, packagesVars, installVars>>
     \/ /\ about = "install" /\ InstallNext
        /\ UNCHANGED <<vars, transferVars, appsVars, packagesVars, signalVars>>

MCSpec == MCInit /\ [][MCNext]_allVars /\ AppsFairness
=============================================================================
