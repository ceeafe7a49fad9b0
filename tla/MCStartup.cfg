\* A working configuration with up to two settings changed, from all sources,
\* and every YAML file of up to four lines.
CONSTANTS
  Unset = Unset
  Malformed = Malformed
  Nothing = Nothing
  Numbers <- MCNumbers
  Wholes <- MCWholes
  Durations <- MCDurations
  Urls <- MCUrls
  NameOrder <- MCNameOrder
  Keys <- MCKeys
  Inputs <- MCInputs
SPECIFICATION Spec
INVARIANTS RunnableJob ResolverFitsManager SourcesAgree TreeIsIndentation BlamesFirstMisfit
