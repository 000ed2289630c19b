------------------------------ MODULE MCLayout ------------------------------
(* Layout with the real constants, all small sizes, and the edges of the rest. *)
EXTENDS Layout

Around(S) == UNION {{n - 1, n, n + 1} : n \in S}

Edges == Around({SizeTable[c] : c \in 1 .. kNumSizeClasses}) \ {SMALL_SIZE_MAX + 1}

\* Beyond the small sizes: page and segment sizes, and what overflows.
LargeSizes ==
  Around({SMALL_SIZE_MAX, PAGE_SIZE, 5 * 1048576, SEGMENT_SIZE - LARGE_OFFSET, WORD - PS,
          WORD - LARGE_OFFSET, WORD - SEGMENT_SIZE - PS - LARGE_OFFSET, WORD - SEGMENT_SIZE,
          WORD \div 2})
    \cup {WORD - 1}

SomeSizes == {0} \cup Edges \cup LargeSizes

MCReallocSize == {0, 1, 64, 65, SMALL_SIZE_MAX \div 2} \cup LargeSizes

MCMallocSize == 0 .. SMALL_SIZE_MAX \cup LargeSizes

MCCallocArg == {<<0, 1>>, <<1, 0>>} \cup ({1, 2, 3} \X SomeSizes)

MCAlignedArg == ({0, 24} \cup {2 ^ k : k \in 0 .. 23}) \X SomeSizes

=============================================================================
