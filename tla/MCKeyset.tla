------------------------------ MODULE MCKeyset ------------------------------
EXTENDS KeysetPaging

FiveIds == 1..5
WithinMax == {-1, 0, 1, 2, 3}
AboveMax == {4}
=============================================================================
