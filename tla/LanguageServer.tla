---------------------------- MODULE LanguageServer ----------------------------
(***************************************************************************)
(* `keal lsp` (src/src/lsp.rs) as far as it keeps state: the texts of the  *)
(* files the editor has open, laid over the disk, and the diagnostics the  *)
(* editor shows because the server sent them.  Requests that only read     *)
(* (hover, definition, references, rename, symbols, completion) are one    *)
(* analysis each, and change nothing.                                      *)
(***************************************************************************)
EXTENDS Naturals, Sequences

CONSTANTS File, Text,
          Absent,       \* no such file, or not open
          By(_, _),     \* By(texts, file): the diagnostics of an analysis from a file, by file
          MaxInbox      \* bound on the messages the server has not read
VARIABLES open,    \* what the editor is holding, by path, as the server knows it
          disk,    \* the files
          inbox,   \* the editor's messages, in order
          shown,   \* the diagnostics the editor shows
          fresh    \* the files analysed since a text last changed
lspVars == <<open, disk, inbox, shown, fresh>>

Held == [File -> Text \cup {Absent}]
\* The loader reads the overlay first.
Over(held, files) == [f \in File |-> IF held[f] # Absent THEN held[f] ELSE files[f]]
Texts == Over(open, disk)

LSPInit ==
    /\ open = [f \in File |-> Absent] /\ disk \in Held
    /\ inbox = <<>> /\ shown = [f \in File |-> {}] /\ fresh = {}

(* The editor. *)
Message == [method : {"didChange", "didSave", "didClose"}, file : File, text : Text \cup {Absent}]
Send(method, file, text) ==
    /\ Len(inbox) < MaxInbox
    /\ inbox' = Append(inbox, [method |-> method, file |-> file, text |-> text])
\* A file is opened with its text, and each change sends the whole of it.
Types(file, text) ==
    /\ Send("didChange", file, text)
    /\ UNCHANGED <<open, disk, shown, fresh>>
\* What it holds of a file: the server may not have heard of it yet.
Buffer(file) ==
    LET sent == {i \in DOMAIN inbox : inbox[i].file = file /\ inbox[i].method # "didSave"}
    IN  IF sent = {} THEN open[file] ELSE inbox[CHOOSE i \in sent : \A j \in sent : j <= i].text
Closes(file) ==
    /\ Buffer(file) # Absent
    /\ Send("didClose", file, Absent)
    /\ UNCHANGED <<open, disk, shown, fresh>>

\* A file is written: what lies over it hides that.
Write(file, text) == /\ disk' = [disk EXCEPT ![file] = text]
                     /\ fresh' = IF open[file] = Absent THEN {} ELSE fresh
\* A save writes the file before it is told of.
Saves(file, text) ==
    /\ text = Buffer(file)
    /\ Send("didSave", file, Absent)
    /\ Write(file, text)
    /\ UNCHANGED <<open, shown>>
\* Another program writes or removes a file: nobody tells the server.
WritesBehind(file, text) == Write(file, text) /\ UNCHANGED <<open, inbox, shown>>

(* The server, one message at a time. *)
\* Every file the analysis has diagnostics for gets its list, and the file
\* asked about always does, even an empty one.
Published(texts, file) ==
    [f \in DOMAIN By(texts, file) \cup {g \in {file} : texts[g] # Absent} |->
        IF f \in DOMAIN By(texts, file) THEN By(texts, file)[f] ELSE {}]
PublishFound(texts, file) ==   \* mutant
    shown' = [f \in File |-> IF f \in DOMAIN By(texts, file) THEN By(texts, file)[f] ELSE shown[f]]
Publish(texts, file) ==
    LET lists == Published(texts, file)
    IN  shown' = [f \in File |-> IF f \in DOMAIN lists THEN lists[f] ELSE shown[f]]

Receive(method) == inbox # <<>> /\ Head(inbox).method = method /\ inbox' = Tail(inbox)
\* didOpen and didChange.
DidChange ==
    /\ Receive("didChange")
    /\ LET file == Head(inbox).file
           held == [open EXCEPT ![file] = Head(inbox).text]
       IN  /\ open' = held
           /\ Publish(Over(held, disk), file)
           /\ fresh' = {file}
    /\ UNCHANGED disk
DidSave ==
    /\ Receive("didSave")
    /\ Publish(Texts, Head(inbox).file)
    /\ fresh' = fresh \cup {Head(inbox).file}
    /\ UNCHANGED <<open, disk>>
\* The list is cleared: the file is no longer the server's to talk about.
DidClose ==
    /\ Receive("didClose")
    /\ open' = [open EXCEPT ![Head(inbox).file] = Absent]
    /\ shown' = [shown EXCEPT ![Head(inbox).file] = {}]
    /\ fresh' = {}
    /\ UNCHANGED disk

LSPNext ==
    \/ \E file \in File, text \in Text : Types(file, text) \/ Saves(file, text)
    \/ \E file \in File, text \in Text \cup {Absent} : WritesBehind(file, text)
    \/ \E file \in File : Closes(file)
    \/ DidChange \/ DidSave \/ DidClose
LSPSpec == LSPInit /\ [][LSPNext]_lspVars

LSPTypeOK == /\ open \in Held /\ disk \in Held /\ fresh \subseteq File
             /\ inbox \in Seq(Message)
             /\ shown = [f \in File |-> shown[f]]

\* What an analysis finds on a file depends on the file it was asked about:
\* that file's `main` is judged, and all it loads are looked at together.  The
\* two agree on a file if they say the same of it.
Diagnosed(texts, file) == IF file \in DOMAIN By(texts, file) THEN By(texts, file)[file] ELSE {}
Agree(texts, asked, file) ==
    file \in DOMAIN Published(texts, asked) => Published(texts, asked)[file] = Diagnosed(texts, file)

\* Every file that was asked about since a text changed, and every file that
\* such an analysis put diagnostics on, shows the whole list of one of those
\* analyses: none is left over, none is another text's, whatever was typed,
\* saved, closed or written behind the editor in between.
AnalysedIsShown ==
    \A file \in File :
        LET about == {asked \in fresh : file \in DOMAIN Published(Texts, asked)}
        IN  about # {} => \E asked \in about : shown[file] = Published(Texts, asked)[file]
\* And a file asked about shows what `keal check` says of it, unless a file
\* asked about as well sees it otherwise.
AgreedIsShown ==
    \A file \in fresh :
        Texts[file] # Absent /\ (\A asked \in fresh : Agree(Texts, asked, file)) =>
            shown[file] = Diagnosed(Texts, file)
FreshIsShown == AnalysedIsShown /\ AgreedIsShown
================================================================================
