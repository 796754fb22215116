---------------------------- MODULE HeaderFlags ----------------------------
(***************************************************************************)
(* The headers of the command line: -H and --header, each with a header or *)
(* a file of headers, as often as the user likes.                          *)
(* internal/config/options.go, headerFlag.                                 *)
(***************************************************************************)
EXTENDS Naturals, Sequences

CONSTANTS
    HeaderName,  \* names of HTTP headers
    HeaderValue, \* their values
    NoName,      \* an empty or blank name
    Absent,      \* a file that cannot be read
    Blank,       \* a line of a file that is blank or a comment
    NoColon      \* a value that is no header

Header == [name: HeaderName \cup {NoName}, value: HeaderValue]

Line == Header \cup {Blank, NoColon}

\* The value of one flag, an @file or not.
HeaderArg ==
    [file: {TRUE}, lines: Seq(Line) \cup {Absent}]
        \cup [file: {FALSE}, lines: {<<line>> : line \in Header \cup {NoColon}}]

\* In a file, blank lines and comments are passed over.
Usable(line) == line = Blank \/ (line # NoColon /\ line.name # NoName)

\* One bad line anywhere, and the command line is refused.
Accepted(args) ==
    \A i \in DOMAIN args :
        args[i].lines # Absent /\ \A j \in DOMAIN args[i].lines : Usable(args[i].lines[j])

\* Where a header is mentioned: the flag, and the line of its file.
Mentions(args, h) ==
    {m \in UNION {{i} \X DOMAIN args[i].lines : i \in DOMAIN args} :
        LET line == args[m[1]].lines[m[2]]
        IN  line # Blank /\ line.name = h}

\* The last mention gives the value.
HeadersOf(args) ==
    [h \in {h \in HeaderName : Mentions(args, h) # {}} |->
        LET last == CHOOSE m \in Mentions(args, h) :
                        \A k \in Mentions(args, h) : k[1] < m[1] \/ (m[1] = k[1] /\ k[2] <= m[2])
        IN  args[last[1]].lines[last[2]].value]
=============================================================================
