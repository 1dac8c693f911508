CONSTANTS
    MaxDenials = 2
SPECIFICATION Spec
INVARIANTS RefusedUntouched OpenedBeforeMember MemberFirst
