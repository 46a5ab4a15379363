SPECIFICATION Spec
CONSTANTS
    Secrets <- MCSecrets
    Parameters <- MCParameters
    Indexes <- MCIndexes
    Lower <- MCLower
    Decimal <- MCDecimal
    Code <- MCCode
    MaxBigint = 127
    None = None
INVARIANT
    SearchIsNotRepeated
