-------------------------------- MODULE Exports --------------------------------
(***************************************************************************)
(* The keywords that export a workbook from the application: DATA_EXPORTS  *)
(* and TC_EXPORTS_LOGOUT of framework/Textbox.java.  A click makes the     *)
(* browser download the workbook; the keyword sleeps, lists the user's     *)
(* Downloads, takes the file written last and moves it under the name of   *)
(* the test case, where ExcelComparator finds it.                          *)
(*                                                                         *)
(* All browsers of the machine write to the one directory, each download   *)
(* to a name of its own: first a part, which grows, and is renamed when it *)
(* is whole.  A file is <<t, n, kind>>: the n-th download of test case t,  *)
(* a "part" or the "book"; files from before the run are of no test case.  *)
(* Each write has a time of its own.  As on Windows, whose paths the code  *)
(* builds, a file is not moved over another one.                           *)
(***************************************************************************)
EXTENDS Naturals, Sequences, FiniteSets, SequencesExt

CONSTANTS
    Tests,      \* test cases
    NoFile,     \* null
    Setups      \* what to start with, see below

(* A setup: exports[t], how many export keywords the test case has; threads; *)
(* steps, the property setstepnumber; and old, the files in Downloads, with  *)
(* their sizes, the oldest first.                                            *)

VARIABLES
    setup,
    pc,         \* where each test case is
    done,       \* done[t]: the export keywords it has begun
    downloads,  \* downloads[f]: the time and size of a file in Downloads
    clock,      \* the time of the last write
    excels,     \* what has been moved to the Excels directory, by path
    files,      \* files[t]: what the loop has still to look at of its listing
    lastModifiedFile,
    disturbed   \* history: a listing without the own workbook, or two test
                \* cases in an export at once

vars == <<setup, pc, done, downloads, clock, excels, files, lastModifiedFile, disturbed>>
locals == <<files, lastModifiedFile>>

Init ==
    /\ setup \in Setups
    /\ pc = [t \in Tests |-> "todo"]
    /\ done = [t \in Tests |-> 0]
    /\ downloads = [f \in {<<"old", n, "book">> : n \in DOMAIN setup.old} |->
                       [time |-> f[2], size |-> setup.old[f[2]]]]
    /\ clock = Len(setup.old)
    /\ excels = <<>>
    /\ files = [t \in Tests |-> <<>>]
    /\ lastModifiedFile = [t \in Tests |-> NoFile]
    /\ disturbed = FALSE

Goto(t, place) == pc' = [pc EXCEPT ![t] = place]

InExport == {"clicked", "scan", "wait", "move"}

\* File.lastModified and File.length: 0 for a file that is gone
LastModified(f) == IF f \in DOMAIN downloads THEN downloads[f].time ELSE 0
Length(f) == IF f \in DOMAIN downloads THEN downloads[f].size ELSE 0

Without(dir, f) == [g \in DOMAIN dir \ {f} |-> dir[g]]
With(dir, f, time, size) == [g \in DOMAIN dir \cup {f} |->
                                IF g = f THEN [time |-> time, size |-> size] ELSE dir[g]]

-----------------------------------------------------------------------------
(* The browsers                                                            *)

Part(t, n) == <<t, n, "part">>
Whole(t, n) == <<t, n, "book">>

\* A download that has been clicked for begins at any time after it
Begun(t, n) ==
    \/ {Part(t, n), Whole(t, n)} \cap DOMAIN downloads # {}
    \/ \E p \in DOMAIN excels : excels[p] \in {Part(t, n), Whole(t, n)}

DownloadBegins(t, n) ==
    /\ n <= done[t] /\ ~Begun(t, n)
    /\ clock' = clock + 1
    /\ downloads' = With(downloads, Part(t, n), clock', 0)
    /\ UNCHANGED <<setup, pc, done, excels, locals, disturbed>>

DownloadGrows(t, n) ==
    /\ Part(t, n) \in DOMAIN downloads /\ downloads[Part(t, n)].size = 0
    /\ clock' = clock + 1
    /\ downloads' = With(downloads, Part(t, n), clock', 1)
    /\ UNCHANGED <<setup, pc, done, excels, locals, disturbed>>

DownloadEnds(t, n) ==
    /\ Part(t, n) \in DOMAIN downloads /\ downloads[Part(t, n)].size > 0
    /\ downloads' = With(Without(downloads, Part(t, n)), Whole(t, n), downloads[Part(t, n)].time, 1)
    /\ UNCHANGED <<setup, pc, done, clock, excels, locals, disturbed>>

-----------------------------------------------------------------------------
(* The keyword                                                             *)

\* A worker takes the test case
Begin(t) ==
    /\ pc[t] = "todo"
    /\ Cardinality({u \in Tests : pc[u] \notin {"todo", "ended", "failed"}}) < setup.threads
    /\ Goto(t, "script")
    /\ UNCHANGED <<setup, done, downloads, clock, excels, locals, disturbed>>

\* The clicks, and the seconds they are given
Click(t) ==
    /\ pc[t] = "script" /\ done[t] < setup.exports[t]
    /\ done' = [done EXCEPT ![t] = @ + 1]
    /\ Goto(t, "clicked")
    /\ disturbed' = (disturbed \/ \E u \in Tests \ {t} : pc[u] \in InExport)
    /\ UNCHANGED <<setup, downloads, clock, excels, locals>>

\* listFiles in whatever order; without a file the keyword throws
\* a NullPointerException at renameTo
List(t) ==
    /\ pc[t] = "clicked"
    /\ disturbed' = (disturbed \/ Whole(t, done[t]) \notin DOMAIN downloads)
    /\ IF downloads = <<>>
       THEN Goto(t, "failed") /\ UNCHANGED locals
       ELSE /\ \E list \in SetToSeqs(DOMAIN downloads) :
                  /\ files' = [files EXCEPT ![t] = Tail(list)]
                  /\ lastModifiedFile' = [lastModifiedFile EXCEPT ![t] = list[1]]
            /\ Goto(t, "scan")
    /\ UNCHANGED <<setup, done, downloads, clock, excels>>

\* mutant: the older file is kept
NewerOld(f, g) == IF LastModified(f) > LastModified(g) THEN g ELSE f

Newer(f, g) == IF LastModified(f) < LastModified(g) THEN g ELSE f

\* A turn of the loop: the next file, unless the last one was newer
Scan(t) ==
    /\ pc[t] = "scan"
    /\ IF files[t] = <<>>
       THEN Goto(t, "move") /\ UNCHANGED locals
       ELSE /\ lastModifiedFile' = [lastModifiedFile EXCEPT ![t] = Newer(@, Head(files[t]))]
            /\ files' = [files EXCEPT ![t] = Tail(@)]
            /\ Goto(t, "wait")
    /\ UNCHANGED <<setup, done, downloads, clock, excels, disturbed>>

\* mutant: the wait is for the file to be written anew
WaitForNews(t) ==
    /\ pc[t] = "wait" /\ LastModified(lastModifiedFile[t]) = clock
    /\ Goto(t, "scan")
    /\ UNCHANGED <<setup, done, downloads, clock, excels, locals, disturbed>>

\* Three seconds at a time, until the file has something in it
Wait(t) ==
    /\ pc[t] = "wait" /\ Length(lastModifiedFile[t]) > 0
    /\ Goto(t, "scan")
    /\ UNCHANGED <<setup, done, downloads, clock, excels, locals, disturbed>>

\* path1
Path(t) == IF setup.steps THEN <<t, done[t]>> ELSE <<t, 0>>

\* renameTo: nobody looks at whether it has moved the file.  It does not when the
\* file is gone, when there is one at the path, and perhaps when a browser still
\* writes the file
Move(t) ==
    /\ pc[t] = "move"
    /\ LET f == lastModifiedFile[t] IN
       \/ /\ f \in DOMAIN downloads /\ Path(t) \notin DOMAIN excels
          /\ excels' = [p \in DOMAIN excels \cup {Path(t)} |-> IF p = Path(t) THEN f ELSE excels[p]]
          /\ downloads' = Without(downloads, f)
       \/ /\ f \notin DOMAIN downloads \/ Path(t) \in DOMAIN excels \/ f[3] = "part"
          /\ UNCHANGED <<excels, downloads>>
    /\ lastModifiedFile' = [lastModifiedFile EXCEPT ![t] = NoFile]
    /\ Goto(t, "script")
    /\ UNCHANGED <<setup, done, clock, files, disturbed>>

\* The script comes to its end, or a step of it fails
End(t) ==
    /\ pc[t] = "script"
    /\ \/ done[t] = setup.exports[t] /\ Goto(t, "ended")
       \/ Goto(t, "failed")
    /\ UNCHANGED <<setup, done, downloads, clock, excels, locals, disturbed>>

Browser(t) ==
    \E n \in 1 .. done[t] : DownloadBegins(t, n) \/ DownloadGrows(t, n) \/ DownloadEnds(t, n)

Worker(t) == Begin(t) \/ Click(t) \/ List(t) \/ Scan(t) \/ Wait(t) \/ Move(t) \/ End(t)

Next == \E t \in Tests : Browser(t) \/ Worker(t)

\* The workers' threads and the browsers go on
Fairness == \A t \in Tests : WF_vars(Browser(t)) /\ WF_vars(Worker(t))

Spec == Init /\ [][Next]_vars /\ Fairness

-----------------------------------------------------------------------------
(***************************************************************************)
(* What is filed under a test case's name is the whole workbook that this  *)
(* test case has exported, and with setstepnumber that of the same step,   *)
(* as long as each export was alone and its workbook there in time; and it *)
(* is filed unless something was at the path.  Whatever happens, no file   *)
(* is filed twice.                                                         *)
(***************************************************************************)
ExportIsOwn ==
    /\ \A p, q \in DOMAIN excels : excels[p] = excels[q] => p = q
    /\ ~disturbed => \A t \in Tests :
        /\ \A p \in DOMAIN excels : p[1] = t =>
              excels[p] = <<t, IF setup.steps THEN p[2] ELSE 1, "book">>
        /\ pc[t] = "ended" => \A n \in 1 .. done[t] :
              (IF setup.steps THEN <<t, n>> ELSE <<t, 0>>) \in DOMAIN excels

(***************************************************************************)
(* An export that is alone and whose workbook was there in time comes to   *)
(* an end, if no empty file lies in Downloads from before: the loop waits  *)
(* for a file to grow, and is not made to wait for one that does not.      *)
(***************************************************************************)
ExportReturns ==
    \A t \in Tests :
        pc[t] \in InExport ~>
            \/ pc[t] \notin InExport
            \/ disturbed
            \/ 0 \in {setup.old[n] : n \in DOMAIN setup.old}

\* Without the last alternative; this does not hold: an empty file that is listed
\* first, or is newer than those listed before it, is waited for although the
\* workbook comes behind it in the listing.
ExportReturnsAnyway ==
    \A t \in Tests : pc[t] \in InExport ~> (pc[t] \notin InExport \/ disturbed)

\* A later export of a test case takes the place of the first one.  This does not
\* hold: without setstepnumber all have one path, and the first stays.
LastExportIsFiled ==
    \A t \in Tests : pc[t] = "ended" /\ ~disturbed /\ ~setup.steps /\ done[t] > 0 =>
        excels[<<t, 0>>] = <<t, done[t], "book">>
=============================================================================
