CONSTANTS
    Names = {a, b}
    Trees = {disk, other}
    Unmounted = unmounted
    MaxChanges = 2
SPECIFICATION Spec
SYMMETRY MCSymmetry
INVARIANTS
    UnresolvableIsMissing
    ListingIsTrue
