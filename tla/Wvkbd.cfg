SPECIFICATION Spec
CHECK_DEADLOCK FALSE
CONSTANT Taps <- AllLayers
INVARIANT MaskFollows
PROPERTIES ShownIsTyped OnlyNextLayerForgets ImplementsSticky
