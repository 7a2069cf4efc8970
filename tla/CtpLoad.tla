------------------------------- MODULE CtpLoad -------------------------------
(***************************************************************************)
(* thLoad: the blocks of a CTP file, and of the files it includes, become  *)
(* variables with the lines as their titles and join the groups of their   *)
(* begin lines.  A file is a sequence of lines:                            *)
(*   [l |-> "begin", kind, name, toks]   toks: [group, eq] for each token  *)
(*                         after the name; group: it starts with "group";  *)
(*                         eq: what follows its "=", or ""                 *)
(*   [l |-> "end", kind], [l |-> "include", file, indented], and the lines *)
(*   of the blocks; l = "blank" for an empty line or a comment.            *)
(***************************************************************************)
EXTENDS CtpVars

CONSTANT MaxOpen   \* files the process may have open

Kinds == {"parm", "gethit", "test", "hist", "uhist", "report"}
NoGroup == <<>>

\* The stack of open files: thFdListP, the file being read is the last.
Opened(fds, file) == Append(fds, [file |-> file, at |-> 1])
CanOpen(disk, fds, file) == file \in DOMAIN disk /\ Len(fds) < MaxOpen
AtEnd(disk, fds) == Last(fds).at > Len(disk[Last(fds).file])
LineAt(disk, fds) == disk[Last(fds).file][Last(fds).at]
Past(fds) == [fds EXCEPT ![Len(fds)].at = @ + 1]

\* getblock, the lines after "begin".  A file that fails to open is read on as
\* a null stream; a block that lacks its end is ended by a line built in
\* place from itself.
RECURSIVE ReadBlock(_, _, _, _)
ReadBlock(disk, fds, kind, title) ==
  IF AtEnd(disk, fds)
  THEN IF Len(fds) = 1 THEN [ok |-> FALSE, fds |-> fds, title |-> title]
       ELSE ReadBlock(disk, Front(fds), kind, title)
  ELSE LET line == LineAt(disk, fds)
           past == Past(fds)
       IN CASE line.l = "include" ->
                 IF CanOpen(disk, fds, line.file)
                 THEN ReadBlock(disk, Opened(past, line.file), kind, title)
                 ELSE [ok |-> FALSE, fds |-> fds, title |-> title]
            [] line.l = "end" /\ line.kind = kind ->
                 [ok |-> TRUE, fds |-> past, title |-> Append(title, line)]
            [] OTHER -> ReadBlock(disk, past, kind, Append(title, line))

\* The static array of group names after a begin line: a token that does not
\* start with "group" takes up an entry and leaves there what an earlier
\* line put into it.
\* (HeadersUnended: a mutant, no null entry after the last.)
HeadersUnended(old, begin) ==
  [ig \in DOMAIN old |->
     CASE ig = 0 -> <<begin.kind, "all">>
       [] ig = 1 /\ begin.toks = <<>> -> <<begin.kind, "default">>
       [] ig \in DOMAIN begin.toks /\ begin.toks[ig].group -> <<begin.kind, begin.toks[ig].eq>>
       [] OTHER -> old[ig]]
Headers(old, begin) ==
  LET toks == begin.toks
      last == IF toks = <<>> THEN 1 ELSE Len(toks)
  IN [ig \in DOMAIN old |->
       CASE ig = 0 -> <<begin.kind, "all">>
         [] ig = 1 /\ toks = <<>> -> <<begin.kind, "default">>
         [] ig \in DOMAIN toks /\ toks[ig].group /\ toks[ig].eq # "" -> <<begin.kind, toks[ig].eq>>
         [] ig = last + 1 -> NoGroup
         [] OTHER -> old[ig]]

\* The groups thLoad finds in the array: those before its first null entry.
GroupList(headers) ==
  {headers[ig] : ig \in {g \in DOMAIN headers : \A h \in 0 .. g : headers[h] # NoGroup}}

\* thAddVarToList.
Joined(list, key) == IF Contains(list, key) THEN list ELSE Append(list, key)

\* thLoad, one block read: its variable is made or gets the new title and is
\* not booked any more; what earlier bookings left (opaque) stays.  The
\* groups of an unknown kind have no class to take their handlers from.
Attach(lib, begin, title) ==
  LET key == <<begin.kind, begin.name>>
      headers == Headers(lib.headers, begin)
      list == GroupList(headers)
      opaque == IF key \in DOMAIN lib.blocks THEN lib.blocks[key].opaque ELSE NoOpaque
      Known(g) == IF g \in DOMAIN lib.groups THEN lib.groups[g] ELSE <<>>
  IN Require(begin.kind \in Kinds,
       [lib EXCEPT
          !.headers = headers,
          !.blocks = (key :> [title |-> title, count |-> Unbooked, opaque |-> opaque]) @@ @,
          !.groups = [g \in DOMAIN @ \union list |->
                        IF g \in list THEN Joined(Known(g), key) ELSE @[g]]])

\* thLoad from the begin line it is looking for on.  stale is the file of an
\* include line whose tokens are still in place: an indented one followed by
\* nothing but blank lines, at each of which it is taken for read again.
RECURSIVE Blocks(_, _, _, _)
Blocks(lib, disk, fds, stale) ==
  IF fds = <<>> \/ ~ lib.ok THEN lib
  ELSE IF AtEnd(disk, fds) THEN Blocks(lib, disk, Front(fds), stale)
  ELSE LET line == LineAt(disk, fds)
           past == Past(fds)
           Include(file, left) ==
             IF CanOpen(disk, fds, file) THEN Blocks(lib, disk, Opened(past, file), left)
             ELSE Undefined(lib)
           read == ReadBlock(disk, past, line.kind, <<line>>)
       IN CASE line.l = "include" -> Include(line.file, IF line.indented THEN line.file ELSE "")
            [] line.l = "blank" /\ stale # "" -> Include(stale, stale)
            [] line.l = "begin" -> Blocks(Require(read.ok, Attach(lib, line, read.title)), disk, read.fds, "")
            [] OTHER -> Blocks(lib, disk, past, "")

Load(lib, disk, file) ==
  IF CanOpen(disk, <<>>, file) THEN Blocks(lib, disk, Opened(<<>>, file), "") ELSE lib
=============================================================================
