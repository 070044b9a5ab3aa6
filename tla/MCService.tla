----------------------------- MODULE MCService -----------------------------
EXTENDS Service

CONSTANTS l1, l2, l3

MCLogs == {l1, l2, l3}

\* Requests of the passing run: one log read ascending, two logs merged in
\* either direction, all three logs (beyond MaxLogsToMerge); a limit below
\* the page cap and one above it.
MCRequests ==
    [ids : {{l1}}, desc : {FALSE}, lim : {1, 3}]
    \cup [ids : {{l1, l2}}, desc : BOOLEAN, lim : {1, 3}]
    \cup [ids : {MCLogs}, desc : {FALSE}, lim : {1}]

\* One log read descending.
MCDescRequests == [ids : {{l1}}, desc : {TRUE}, lim : {1, 3}]

\* One log read with Limit 0, the limit an omitted field gives.
MCZeroRequests == [ids : {{l1}}, desc : BOOLEAN, lim : {0}]

====
