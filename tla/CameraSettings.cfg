SPECIFICATION ParamsSpec
CONSTANTS
  Numerals <- TwoNumerals
  Inputs <- ShortInputs
  Keys <- SomeKeys
  Values <- SomeValues
  MaxItems = 2
INVARIANTS RoundTrip SettingsArrive SizesUpToFirstError
PROPERTY OneItemChanges
