SPECIFICATION TranslationSpec
CONSTANTS
    Order <- MCOrder
    Xmm <- MCXmm
    StackSlots = 40
INVARIANTS
    
    TargetsAreWhole
    
    
    
PROPERTIES
    TranslationEnds
