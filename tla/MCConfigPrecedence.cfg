\* Does the environment override the file for every field, with or without
\* a config file?
CONSTANTS
    Fields <- MCFields
SPECIFICATION Spec
INVARIANT Precedence
