------------------------- MODULE LanguageServerProofs -------------------------
(***************************************************************************)
(* Proofs about the language server, for any files, any texts, any number  *)
(* of messages under way and any analysis: what it finds on a file may     *)
(* depend on the file it was asked about.                                  *)
(***************************************************************************)
EXTENDS LanguageServer, TLAPS

\* The invariant: it is inductive with the types of the texts alone, and what
\* the analyses agree on follows from it.
LInv == LSPTypeOK /\ AnalysedIsShown

\* What lies over the disk is a text of every file, or none.
LEMMA OverHeld ==
    ASSUME NEW held \in Held, NEW files \in Held
    PROVE  Over(held, files) \in Held
BY DEF Over, Held

LEMMA TextsHeld == LSPTypeOK => Texts \in Held
BY OverHeld DEF LSPTypeOK, Texts

\* The message at hand is about a file, and what is left are messages.
LEMMA Received ==
    ASSUME LSPTypeOK, NEW method, Receive(method)
    PROVE  /\ Head(inbox) \in Message
           /\ Head(inbox).file \in File
           /\ Head(inbox).text \in Text \cup {Absent}
           /\ inbox' \in Seq(Message)
<1>1. Head(inbox) \in Message /\ inbox' \in Seq(Message)
    BY DEF LSPTypeOK, Receive
<1> QED BY <1>1 DEF Message

\* Publishing for one file shows its lists where the analysis has one, and it
\* has one of that file; every other file shows what it did.
LEMMA PublishShows ==
    ASSUME NEW texts \in Held, NEW file \in File, Publish(texts, file)
    PROVE  /\ shown' = [f \in File |-> shown'[f]]
           /\ \A f \in File : f \in DOMAIN Published(texts, file) => shown'[f] = Published(texts, file)[f]
           /\ \A f \in File : f \notin DOMAIN Published(texts, file) => shown'[f] = shown[f]
<1>1. shown' = [f \in File |-> IF f \in DOMAIN Published(texts, file) THEN Published(texts, file)[f] ELSE shown[f]]
    BY DEF Publish
<1> QED BY <1>1

LEMMA InitLInv == LSPInit => LInv
BY DEF LSPInit, LInv, LSPTypeOK, AnalysedIsShown, Held

\* The editor changes no text the server has, nor what is shown.
LEMMA SendKeeps ==
    ASSUME LInv, NEW method \in {"didChange", "didSave", "didClose"}, NEW file \in File,
           NEW text \in Text \cup {Absent}, Send(method, file, text)
    PROVE  inbox' \in Seq(Message)
BY DEF LInv, LSPTypeOK, Send, Message

LEMMA TypesKeeps ==
    ASSUME LInv, NEW file \in File, NEW text \in Text, Types(file, text)
    PROVE  LInv'
<1>1. inbox' \in Seq(Message)
    BY SendKeeps DEF Types
<1> QED BY <1>1 DEF LInv, LSPTypeOK, AnalysedIsShown, Types, Texts

LEMMA ClosesKeeps ==
    ASSUME LInv, NEW file \in File, Closes(file)
    PROVE  LInv'
<1>1. inbox' \in Seq(Message)
    BY SendKeeps DEF Closes
<1> QED BY <1>1 DEF LInv, LSPTypeOK, AnalysedIsShown, Closes, Texts

\* A file written under an open buffer is not seen; another ends what is fresh.
LEMMA WriteKeeps ==
    ASSUME LInv, NEW file \in File, NEW text \in Text \cup {Absent}, Write(file, text),
           inbox' \in Seq(Message), UNCHANGED <<open, shown>>
    PROVE  LInv'
<1>1. disk' \in Held /\ fresh' \subseteq File
    BY DEF LInv, LSPTypeOK, Write, Held
<1>2. LSPTypeOK'
    BY <1>1 DEF LInv, LSPTypeOK
<1>3. CASE open[file] = Absent
    BY <1>2, <1>3 DEF LInv, AnalysedIsShown, Write
<1>4. CASE open[file] # Absent
    <2>1. Texts' = Texts /\ fresh' = fresh
        BY <1>4 DEF LInv, LSPTypeOK, Write, Texts, Over, Held
    <2> QED BY <1>2, <2>1 DEF LInv, AnalysedIsShown
<1> QED BY <1>3, <1>4

LEMMA WritesBehindKeeps ==
    ASSUME LInv, NEW file \in File, NEW text \in Text \cup {Absent}, WritesBehind(file, text)
    PROVE  LInv'
BY WriteKeeps DEF WritesBehind, LInv, LSPTypeOK

LEMMA SavesKeeps ==
    ASSUME LInv, NEW file \in File, NEW text \in Text, Saves(file, text)
    PROVE  LInv'
<1>1. inbox' \in Seq(Message)
    BY SendKeeps DEF Saves
<1> QED BY <1>1, WriteKeeps DEF Saves

LEMMA DidChangeKeeps == LInv /\ DidChange => LInv'
<1> SUFFICES ASSUME LInv, DidChange PROVE LInv'
    OBVIOUS
<1> DEFINE file == Head(inbox).file
           held == [open EXCEPT ![file] = Head(inbox).text]
           texts == Over(held, disk)
<1>1. /\ file \in File /\ Head(inbox).text \in Text \cup {Absent} /\ inbox' \in Seq(Message)
    BY Received DEF DidChange, LInv
<1>2. held \in Held /\ texts \in Held
    BY <1>1, OverHeld DEF LInv, LSPTypeOK, Held
<1>3. open' = held /\ disk' = disk /\ Publish(texts, file) /\ fresh' = {file}
    BY DEF DidChange
<1>4. Texts' = texts
    BY <1>3 DEF Texts
<1>5. /\ shown' = [f \in File |-> shown'[f]]
      /\ \A f \in File : f \in DOMAIN Published(texts, file) => shown'[f] = Published(texts, file)[f]
    BY <1>1, <1>2, <1>3, PublishShows
<1>6. LSPTypeOK'
    BY <1>1, <1>2, <1>3, <1>5 DEF LInv, LSPTypeOK
<1>7. ASSUME NEW f \in File, NEW asked \in fresh', f \in DOMAIN Published(Texts', asked)
      PROVE  shown'[f] = Published(Texts', file)[f] /\ file \in fresh' /\ f \in DOMAIN Published(Texts', file)
    BY <1>3, <1>4, <1>5, <1>7
<1>8. AnalysedIsShown'
    BY <1>7 DEF AnalysedIsShown, Published
<1> QED BY <1>6, <1>8 DEF LInv

\* A list replaces another's of the same texts, and is the file's answer.
LEMMA DidSaveKeeps == LInv /\ DidSave => LInv'
<1> SUFFICES ASSUME LInv, DidSave PROVE LInv'
    OBVIOUS
<1> DEFINE file == Head(inbox).file
<1>1. file \in File /\ inbox' \in Seq(Message)
    BY Received DEF DidSave, LInv
<1>2. Texts \in Held
    BY TextsHeld DEF LInv
<1>3. open' = open /\ disk' = disk /\ Publish(Texts, file) /\ fresh' = fresh \cup {file}
    BY DEF DidSave
<1>4. Texts' = Texts
    BY <1>3 DEF Texts
<1>5. /\ shown' = [f \in File |-> shown'[f]]
      /\ \A f \in File : f \in DOMAIN Published(Texts, file) => shown'[f] = Published(Texts, file)[f]
      /\ \A f \in File : f \notin DOMAIN Published(Texts, file) => shown'[f] = shown[f]
    BY <1>1, <1>2, <1>3, PublishShows
<1>6. LSPTypeOK'
    BY <1>1, <1>3, <1>5 DEF LInv, LSPTypeOK
<1>7. ASSUME NEW f \in File, NEW asked \in fresh', f \in DOMAIN Published(Texts, asked)
      PROVE  \E by \in fresh' : f \in DOMAIN Published(Texts, by) /\ shown'[f] = Published(Texts, by)[f]
    <2>1. CASE f \in DOMAIN Published(Texts, file)
        BY <2>1, <1>3, <1>5
    <2>2. CASE f \notin DOMAIN Published(Texts, file)
        <3>1. asked \in fresh /\ shown'[f] = shown[f]
            BY <2>2, <1>3, <1>5, <1>7
        <3>2. PICK by \in fresh : f \in DOMAIN Published(Texts, by) /\ shown[f] = Published(Texts, by)[f]
            BY <3>1, <1>7 DEF LInv, AnalysedIsShown
        <3> QED BY <3>1, <3>2, <1>3
    <2> QED BY <2>1, <2>2
<1>8. AnalysedIsShown'
    BY <1>4, <1>7 DEF AnalysedIsShown, Published
<1> QED BY <1>6, <1>8 DEF LInv

LEMMA DidCloseKeeps == LInv /\ DidClose => LInv'
<1> SUFFICES ASSUME LInv, DidClose PROVE LInv'
    OBVIOUS
<1>1. Head(inbox).file \in File /\ inbox' \in Seq(Message)
    BY Received DEF DidClose, LInv
<1>2. LSPTypeOK'
    BY <1>1 DEF LInv, LSPTypeOK, DidClose, Held
<1>3. AnalysedIsShown'
    BY DEF DidClose, AnalysedIsShown
<1> QED BY <1>2, <1>3 DEF LInv

LEMMA LNextKeeps == LInv /\ [LSPNext]_lspVars => LInv'
<1> SUFFICES ASSUME LInv, [LSPNext]_lspVars PROVE LInv'
    OBVIOUS
<1>1. CASE UNCHANGED lspVars
    BY <1>1 DEF lspVars, LInv, LSPTypeOK, AnalysedIsShown, Texts
<1>2. ASSUME NEW file \in File, NEW text \in Text, Types(file, text) PROVE LInv'
    BY <1>2, TypesKeeps
<1>3. ASSUME NEW file \in File, NEW text \in Text \cup {Absent}, WritesBehind(file, text) PROVE LInv'
    BY <1>3, WritesBehindKeeps
<1>4. ASSUME NEW file \in File, Closes(file) PROVE LInv'
    BY <1>4, ClosesKeeps
<1>5. ASSUME NEW file \in File, NEW text \in Text, Saves(file, text) PROVE LInv'
    BY <1>5, SavesKeeps
<1> QED BY <1>1, <1>2, <1>3, <1>4, <1>5, DidChangeKeeps, DidSaveKeeps, DidCloseKeeps DEF LSPNext

\* A file asked about has a list in its own analysis, so it shows one of those
\* that cover it; where they all say the same of it, that is its own.
LEMMA AgreedFromAnalysed == LInv => AgreedIsShown
<1> SUFFICES ASSUME LInv, NEW file \in fresh, Texts[file] # Absent,
                    \A asked \in fresh : Agree(Texts, asked, file)
             PROVE  shown[file] = Diagnosed(Texts, file)
    BY DEF AgreedIsShown
<1>1. file \in File
    BY DEF LInv, LSPTypeOK
<1>2. file \in DOMAIN Published(Texts, file)
    BY DEF Published
<1>3. PICK asked \in fresh : file \in DOMAIN Published(Texts, asked) /\ shown[file] = Published(Texts, asked)[file]
    BY <1>1, <1>2 DEF LInv, AnalysedIsShown
<1>4. Agree(Texts, asked, file)
    OBVIOUS
<1> QED BY <1>3, <1>4 DEF Agree

\* Whatever is typed, saved, closed or written behind the editor, a file that
\* was asked about since a text changed, or that such an analysis found
\* something on, shows the whole list of one of those analyses, and its own
\* unless they disagree about it: what publish is for (src/src/lsp.rs:213-249).
THEOREM FreshIsAlwaysShown == LSPSpec => []FreshIsShown
<1>1. LInv => FreshIsShown
    BY AgreedFromAnalysed DEF LInv, FreshIsShown
<1> QED BY <1>1, InitLInv, LNextKeeps, PTL DEF LSPSpec
================================================================================
