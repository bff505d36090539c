------------------------------- MODULE Paging -------------------------------
(***************************************************************************)
(* The arithmetic of a paged listing: directories first, then files, each  *)
(* in a table of its own with its own limit and offset.                    *)
(***************************************************************************)
EXTENDS Integers

CONSTANTS DefaultPageSize, MaxPageSize

ASSUME PagingAssumption ==
    DefaultPageSize \in Nat \ {0} /\ MaxPageSize \in Nat /\ DefaultPageSize <= MaxPageSize

\* The page number and the size asked for, as a limit and an offset.
PageBounds(page, pageSize) ==
    LET size == IF pageSize <= 0 THEN DefaultPageSize
                ELSE IF pageSize > MaxPageSize THEN MaxPageSize ELSE pageSize
    IN  [limit |-> size, offset |-> ((IF page < 1 THEN 1 ELSE page) - 1) * size]

Unshifted(totalDirs, limit, offset) ==   \* mutant: files are not counted from their own first
    IF offset >= totalDirs
    THEN [dirLimit |-> 0, dirOffset |-> 0, fileLimit |-> limit, fileOffset |-> offset]
    ELSE [dirLimit |-> limit, dirOffset |-> offset, fileOffset |-> 0,
          fileLimit |-> limit - (IF totalDirs - offset > limit THEN limit ELSE totalDirs - offset)]

\* Limit -1 is no limit; a window that starts among the directories may spill into the files.
PageWindow(totalDirs, limit, offset) ==
    LET from == IF offset < 0 THEN 0 ELSE offset
        dirs == IF totalDirs - from > limit THEN limit ELSE totalDirs - from
    IN  IF limit <= 0 THEN [dirLimit |-> -1, dirOffset |-> 0, fileLimit |-> -1, fileOffset |-> 0]
        ELSE IF from >= totalDirs
        THEN [dirLimit |-> 0, dirOffset |-> 0, fileLimit |-> limit, fileOffset |-> from - totalDirs]
        ELSE [dirLimit |-> limit, dirOffset |-> from, fileLimit |-> limit - dirs, fileOffset |-> 0]

\* A query with this limit and offset returns the row at position n of its table.
Covers(limit, offset, n) == limit # 0 /\ n >= offset /\ (limit < 0 \/ n < offset + limit)

=============================================================================
