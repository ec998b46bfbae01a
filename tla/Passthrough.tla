---------------------------- MODULE Passthrough ----------------------------
(***************************************************************************)
(* The file system as its users see it: the handlers of Dedup together     *)
(* with those of src/src/passthrough.c that change the backend and leave   *)
(* the index alone (rename, link, open with O_TRUNC, mknod), beside a      *)
(* history of what POSIX says every file holds.                            *)
(*                                                                         *)
(* The index is keyed by path, POSIX files are inodes; the backend files   *)
(* have no data of their own, only a size.  A hole is NULL on both sides:  *)
(* that read returns nothing there, not zeros, is not compared.  libfuse,  *)
(* external here, turns the unlink of an open file into a rename to a      *)
(* hidden name, and the last release into the unlink of that name.         *)
(***************************************************************************)
EXTENDS DedupProperties

CONSTANTS
    Inodes,  \* inodes of the backend
    Hidden,  \* the path libfuse renames an open file to
    Calls    \* calls enabled besides Requests

ASSUME PassthroughAssumption ==
    /\ Hidden \in Paths /\ NULL \notin Inodes
    /\ Calls \subseteq {"rename", "link", "otrunc", "mknod", "unlink_open", "grow",
                      "backend_fails"}

VARIABLES
    ino,      \* path -> inode in the backend directory
    opened,   \* inodes with an open handle
    bsize,    \* st_size of the backend file, in blocks
    psize,    \* history: the size POSIX gives the inode
    pdata,    \* history: the contents POSIX gives the inode
    touched   \* history: paths that one of Calls has named

posixVars == <<psize, pdata, touched>>
ptVars    == <<ino, opened, bsize, posixVars>>
passVars  == <<vars, ptVars>>

NoData == [b \in Blocks |-> NULL]

\* Names and inodes agree, and every variable holds a value of its type.
PassTypeOK ==
    /\ TypeOK
    /\ ino \in [Paths -> Inodes \cup {NULL}] /\ names = {p \in Paths : ino[p] # NULL}
    /\ opened \subseteq Inodes /\ touched \subseteq Paths
    /\ bsize \in [Inodes -> 0 .. MaxBlocks] /\ psize \in [Inodes -> 0 .. MaxBlocks]
    /\ pdata \in [Inodes -> [Blocks -> Contents \cup {NULL}]]

\* Files of size 0, each with an inode of its own; the hidden name is not taken.
PassInit ==
    /\ FreshInit
    /\ names = Paths \ {Hidden}
    /\ ino \in [Paths -> Inodes \cup {NULL}]
    /\ \A p, q \in names : ino[p] \in Inodes /\ (ino[p] = ino[q] => p = q)
    /\ ino[Hidden] = NULL
    /\ opened = {} /\ touched = {}
    /\ bsize = [i \in Inodes |-> 0] /\ psize = bsize
    /\ pdata = [i \in Inodes |-> NoData]

-----------------------------------------------------------------------------
(* The handlers that reach the index, with their effect on the backend.    *)

Unused(i) == i \notin opened /\ \A p \in Paths : ino[p] # i
Touch(S)  == touched' = touched \cup S

\* POSIX and the backend when a handler returns.  A write is applied only on
\* success; the data goes to the master file, so the backend size stays.
WriteDone(t, i) ==
    LET r == req[t]
        End == StartBlock(r) + NumBlocks(r)
    IN /\ psize' = [psize EXCEPT ![i] = IF End > @ THEN End ELSE @]
       /\ pdata' = [pdata EXCEPT ![i] = [b \in Blocks |->
              IF b >= StartBlock(r) /\ b < End THEN r.data[b - StartBlock(r) + 1] ELSE @[b]]]
       /\ UNCHANGED <<ino, bsize, touched>>

\* truncate(2) sets the backend's size; when it fails the index has already
\* been cut.  A file that grows does so in the backend only.
TruncateDone(t, i) ==
    LET n == N(t)
    IN \/ /\ bsize' = [bsize EXCEPT ![i] = n] /\ psize' = [psize EXCEPT ![i] = n]
          /\ pdata' = [pdata EXCEPT ![i] = [b \in Blocks |-> IF b < n THEN @[b] ELSE NULL]]
          /\ Touch(IF n > psize[i] THEN {req[t].path} ELSE {})
          /\ UNCHANGED ino
       \/ /\ "backend_fails" \in Calls /\ Touch({req[t].path})
          /\ UNCHANGED <<ino, bsize, psize, pdata>>

\* The backend makes an empty file.
NewFile(p) ==
    /\ \E i \in Inodes :
         /\ Unused(i)
         /\ ino' = [ino EXCEPT ![p] = i]
         /\ bsize' = [bsize EXCEPT ![i] = 0] /\ psize' = [psize EXCEPT ![i] = 0]
         /\ pdata' = [pdata EXCEPT ![i] = NoData]
    /\ UNCHANGED touched

CreateDone(t) ==
    \/ ino[req[t].path] # NULL /\ UNCHANGED <<ino, bsize, psize, pdata, touched>>
    \/ ino[req[t].path] = NULL /\ NewFile(req[t].path)

UnlinkDone(t) ==
    ino' = [ino EXCEPT ![req[t].path] = NULL] /\ UNCHANGED <<bsize, posixVars>>

Returned(t) ==
    LET i == ino[req[t].path]
    IN CASE pc[t] = "w_release"           -> WriteDone(t, i)
         [] pc[t] \in {"t_read", "t_size"} -> TruncateDone(t, i)
         [] pc[t] = "u_backend"           -> UnlinkDone(t)
         [] pc[t] = "c_open"              -> CreateDone(t)
         [] OTHER                         -> UNCHANGED <<ino, bsize, posixVars>>

Handler(t) ==
    /\ Step(t)
    /\ IF pc'[t] = "idle" THEN Returned(t) ELSE UNCHANGED <<ino, bsize, posixVars>>
    /\ UNCHANGED opened

\* unlink(2) fails after the references and the size were removed.
UnlinkFails(t) ==
    /\ pc[t] = "u_backend" /\ "backend_fails" \in Calls
    /\ Touch({req[t].path}) /\ Return(t)
    /\ UNCHANGED <<dataVars, lockVars, ino, opened, bsize, psize, pdata>>

\* External: the kernel sends no plain unlink for a file libfuse must hide, and a
\* truncate may only extend a file when "grow" is enabled.
Accept(t) ==
    /\ Dispatch(t)
    /\ req'[t] # NULL =>
         LET r == req'[t] IN
         /\ r.op = "unlink" => ino[r.path] \notin opened
         /\ r.op = "truncate" /\ "grow" \notin Calls => NumBlocks(r) <= psize[ino[r.path]]
    /\ UNCHANGED ptVars

-----------------------------------------------------------------------------
(* Handlers that only pass the call on.  libfuse holds the path lock, so no *)
(* request on the paths is in flight.                                       *)

Enabled(call, S) ==
    call \in Calls /\ \A t \in Threads : req[t] # NULL => req[t].path \notin S
IndexSame == UNCHANGED <<indexVars, heapVars, allocVars, master, accepted, lockVars, pc,
                         k, frameVars>>

\* Mutant: the old name stays.
MoveKeepsName(from, to) ==
    /\ from \in names
    /\ ino' = [ino EXCEPT ![to] = ino[from], ![from] = NULL]
    /\ names' = names \cup {to} /\ Touch({from, to})
    /\ IndexSame /\ UNCHANGED <<opened, bsize, psize, pdata>>

\* xmp_rename: no dedup metadata moves with the file.
Move(from, to) ==
    /\ from \in names
    /\ ino' = [ino EXCEPT ![to] = ino[from], ![from] = NULL]
    /\ names' = (names \ {from}) \cup {to}
    /\ Touch({from, to})
    /\ IndexSame /\ UNCHANGED <<opened, bsize, psize, pdata>>

Rename(from, to) ==
    Enabled("rename", {from, to}) /\ from # to /\ Hidden \notin {from, to} /\ Move(from, to)

\* libfuse's unlink of an open file.
UnlinkOpen(p) ==
    /\ Enabled("unlink_open", {p, Hidden})
    /\ ino[p] \in opened /\ ino[Hidden] = NULL /\ Move(p, Hidden)

Link(from, to) ==
    /\ Enabled("link", {from, to})
    /\ from \in names /\ to \notin names /\ Hidden \notin {from, to}
    /\ ino' = [ino EXCEPT ![to] = ino[from]] /\ names' = names \cup {to}
    /\ Touch({from, to})
    /\ IndexSame /\ UNCHANGED <<opened, bsize, psize, pdata>>

\* xmp_open hands O_TRUNC to the backend, which cuts its own, empty file.
OpenTrunc(p) ==
    /\ Enabled("otrunc", {p}) /\ p \in names
    /\ opened' = opened \cup {ino[p]}
    /\ bsize' = [bsize EXCEPT ![ino[p]] = 0] /\ psize' = [psize EXCEPT ![ino[p]] = 0]
    /\ pdata' = [pdata EXCEPT ![ino[p]] = NoData]
    /\ Touch({p})
    /\ IndexSame /\ UNCHANGED <<ino, names>>

\* mknod_wrapper for a regular file: O_CREAT | O_EXCL, and the handle is closed.
Mknod(p) ==
    /\ Enabled("mknod", {p}) /\ p \notin names /\ p # Hidden
    /\ names' = names \cup {p} /\ NewFile(p)
    /\ IndexSame /\ UNCHANGED opened

Open(p) ==
    /\ p \in names /\ opened' = opened \cup {ino[p]}
    /\ IndexSame /\ UNCHANGED <<names, ino, bsize, posixVars>>

Release(i) ==
    /\ i \in opened /\ opened' = opened \ {i}
    /\ IndexSame /\ UNCHANGED <<names, ino, bsize, posixVars>>

Still == \A t \in Threads : pc[t] = "idle"
PassQuiet == Still /\ accepted = MaxRequests /\ UNCHANGED passVars

PassNext ==
    \/ \E t \in Threads : Accept(t) \/ Handler(t) \/ UnlinkFails(t)
    \/ \E p, q \in Paths : Rename(p, q) \/ Link(p, q)
    \/ \E p \in Paths : UnlinkOpen(p) \/ OpenTrunc(p) \/ Mknod(p) \/ Open(p)
    \/ \E i \in Inodes : Release(i)
    \/ PassQuiet

PassSpec == PassInit /\ [][PassNext]_passVars

-----------------------------------------------------------------------------
(* Properties                                                              *)

\* Mutant: getattr reports the backend's size.
GetattrSizeBackend(p) == bsize[ino[p]]

\* xmp_getattr: the logical size when the index has one, else the backend's.
GetattrSize(p) == IF file_to_sizes[p] # NULL THEN file_to_sizes[p] ELSE bsize[ino[p]]

\* What xmp_read returns for a block, from the index and the master file.
ReadBack(p, b) == IF file_to_master[<<p, b>>] = NULL THEN NULL
                  ELSE master[info[file_to_master[<<p, b>>]].masterBlockIndex]

PosixAt(p) == /\ GetattrSize(p) = psize[ino[p]]
              /\ \A b \in Blocks : ReadBack(p, b) = pdata[ino[p]][b]

\* Between requests every path shows the size and the data POSIX gives its inode
\* (passthrough.c:12-15: the file system mirrors the backend by passing through
\* all requests), except the paths that a call the index does not see has named:
\* what rename, link, O_TRUNC or a failed backend call do to one file never shows
\* in another, although the two share blocks and slots.
UntouchedShowPosix == Still => \A p \in names \ touched : PosixAt(p)
=============================================================================
